---- MODULE Spec2Model ----
(***************************************************************************)
(* Model of the float-export conversation formatter (formatter.js, kept in *)
(* src/unnamed/part_000 lines 498-1023).  The formatter is a set of pure   *)
(* functions over loosely typed JSON values; the model represents          *)
(* JavaScript values as tagged records, JavaScript strings as TLA+ strings *)
(* and a raised TypeError as the value TypeError, which every caller       *)
(* propagates unless the source catches it.                                *)
(***************************************************************************)
EXTENDS Integers, Sequences, FiniteSets, TLC

VARIABLES fn, arg, ret, storage, handlers, export, quota, page, popup

vars == <<fn, arg, ret, storage, handlers, export, quota, page, popup>>

\* The formatter is pure: it touches none of the service worker's state
formatterVars == <<fn, arg, ret>>
workerVars == <<storage, handlers, export, quota>>
\* The page script (interceptor.js) and the popup
pageVars == <<page, popup>>

(***************************************************************************)
(* JavaScript values.  Every tag has its own payload field so that values  *)
(* of different types are always comparable.                               *)
(***************************************************************************)
Undefined == [t |-> "undefined"]
Null == [t |-> "null"]
Bool(b) == [t |-> "boolean", b |-> b]
Num(n) == [t |-> "number", n |-> n]
Str(s) == [t |-> "string", s |-> s]
Arr(a) == [t |-> "array", a |-> a]
\* An object is its list of <<key, value>> entries in insertion order.
Obj(o) == [t |-> "object", o |-> o]
\* An uncaught exception leaving a function.
TypeError == [t |-> "throw"]

IsStr(v) == v.t = "string"
IsArr(v) == v.t = "array"
IsObj(v) == v.t = "object"
IsNullish(v) == v.t \in {"undefined", "null"}
Throws(v) == v.t = "throw"

\* ToBoolean
Truthy(v) ==
  CASE v.t \in {"undefined", "null", "throw"} -> FALSE
    [] v.t = "boolean" -> v.b
    [] v.t = "number" -> v.n # 0
    [] v.t = "string" -> v.s # ""
    [] OTHER -> TRUE

\* a || b
Or(a, b) == IF Truthy(a) THEN a ELSE b

HasKey(v, k) == IsObj(v) /\ \E i \in 1..Len(v.o) : v.o[i][1] = k

\* v[k] of a non-nullish value: own property of an object, undefined on a
\* primitive or an array (no key the formatter reads is an array or string
\* property).
Get(v, k) ==
  IF HasKey(v, k)
  THEN v.o[CHOOSE i \in 1..Len(v.o) : v.o[i][1] = k][2]
  ELSE Undefined

\* Object.keys(v).length
KeyCount(v) == IF IsObj(v) THEN Len(v.o) ELSE 0

(***************************************************************************)
(* String primitives.                                                      *)
(***************************************************************************)
CharAt(s, i) == SubSeq(s, i, i)

WhiteSpace == {" ", "\n", "\t", "\r"}

\* The backquote character.  A TLA+ string literal cannot hold one, so the
\* model writes every backquote of the source, and of its inputs, as ^.
BQ == "^"

Fence == BQ \o BQ \o BQ

\* String.prototype.includes("\n")
HasNewline(s) == \E i \in 1..Len(s) : CharAt(s, i) = "\n"

\* String.prototype.startsWith
StartsWith(s, p) == Len(s) >= Len(p) /\ SubSeq(s, 1, Len(p)) = p

\* String.prototype.trim
Trim(s) ==
  IF \A i \in 1..Len(s) : CharAt(s, i) \in WhiteSpace
  THEN ""
  ELSE LET lo == CHOOSE i \in 1..Len(s) :
                   /\ CharAt(s, i) \notin WhiteSpace
                   /\ \A j \in 1..(i - 1) : CharAt(s, j) \in WhiteSpace
           hi == CHOOSE i \in 1..Len(s) :
                   /\ CharAt(s, i) \notin WhiteSpace
                   /\ \A j \in (i + 1)..Len(s) : CharAt(s, j) \in WhiteSpace
       IN SubSeq(s, lo, hi)

\* String.prototype.slice(0, n), n >= 0
Slice(s, n) == IF Len(s) <= n THEN s ELSE SubSeq(s, 1, n)

RECURSIVE SplitFrom(_, _)
SplitFrom(s, from) ==
  IF \E i \in from..Len(s) : CharAt(s, i) = "\n"
  THEN LET nl == CHOOSE i \in from..Len(s) :
                   /\ CharAt(s, i) = "\n"
                   /\ \A j \in from..(i - 1) : CharAt(s, j) # "\n"
       IN <<SubSeq(s, from, nl - 1)>> \o SplitFrom(s, nl + 1)
  ELSE <<SubSeq(s, from, Len(s))>>

\* String.prototype.split("\n")
Split(s) == SplitFrom(s, 1)

RECURSIVE Join(_, _)
\* Array.prototype.join(sep) of an array of strings
Join(ss, sep) ==
  IF ss = <<>> THEN ""
  ELSE IF Len(ss) = 1 THEN ss[1]
  ELSE ss[1] \o sep \o Join(Tail(ss), sep)

RECURSIVE Repeat(_, _)
\* String.prototype.repeat
Repeat(s, n) ==
  IF n <= 0 THEN ""
  ELSE IF n = 1 THEN s
  ELSE LET h == Repeat(s, n \div 2)
       IN IF n % 2 = 0 THEN h \o h ELSE h \o h \o s

(***************************************************************************)
(* JSON.stringify(v, null, gap) and JSON.parse.                            *)
(***************************************************************************)
EscapeChar(c) ==
  CASE c = "\"" -> "\\\""
    [] c = "\\" -> "\\\\"
    [] c = "\n" -> "\\n"
    [] c = "\t" -> "\\t"
    [] c = "\r" -> "\\r"
    [] OTHER -> c

RECURSIVE EscapeRange(_, _, _)
EscapeRange(s, lo, hi) ==
  IF lo > hi THEN ""
  ELSE IF lo = hi THEN EscapeChar(CharAt(s, lo))
  ELSE LET mid == (lo + hi) \div 2
       IN EscapeRange(s, lo, mid) \o EscapeRange(s, mid + 1, hi)

\* JSON.stringify of a string
Quote(s) == "\"" \o EscapeRange(s, 1, Len(s)) \o "\""

RECURSIVE Stringify(_, _, _)
\* The text of v; cur is the indentation reached, gap the indent unit ("" for
\* the compact form).  An undefined array element is written null and an
\* undefined property is left out.
Stringify(v, gap, cur) ==
  LET inner == cur \o gap
      nl == IF gap = "" THEN "" ELSE "\n"
      colon == IF gap = "" THEN ":" ELSE ": "
      shown == IF IsObj(v)
               THEN SelectSeq(v.o, LAMBDA e : e[2].t # "undefined")
               ELSE <<>>
  IN CASE v.t = "null" -> "null"
       [] v.t = "undefined" -> "null"
       [] v.t = "boolean" -> IF v.b THEN "true" ELSE "false"
       [] v.t = "number" -> ToString(v.n)
       [] v.t = "string" -> Quote(v.s)
       [] v.t = "array" ->
            IF v.a = <<>> THEN "[]"
            ELSE "[" \o nl \o inner
                 \o Join([i \in 1..Len(v.a) |-> Stringify(v.a[i], gap, inner)],
                         "," \o nl \o inner)
                 \o nl \o cur \o "]"
       [] v.t = "object" ->
            IF shown = <<>> THEN "{}"
            ELSE "{" \o nl \o inner
                 \o Join([i \in 1..Len(shown) |->
                            Quote(shown[i][1]) \o colon
                            \o Stringify(shown[i][2], gap, inner)],
                         "," \o nl \o inner)
                 \o nl \o cur \o "}"

\* JSON.stringify(v, null, gap): undefined for an undefined value
JSONStringify(v, gap) ==
  IF v.t = "undefined" THEN Undefined ELSE Str(Stringify(v, gap, ""))

Digits == {"0", "1", "2", "3", "4", "5", "6", "7", "8", "9"}

DigitVal(c) == CHOOSE d \in 0..9 : ToString(d) = c

ParseFail == [ok |-> FALSE, v |-> Undefined, p |-> 0]
ParseOk(v, p) == [ok |-> TRUE, v |-> v, p |-> p]

RECURSIVE SkipWs(_, _)
SkipWs(s, p) ==
  IF p <= Len(s) /\ CharAt(s, p) \in WhiteSpace THEN SkipWs(s, p + 1) ELSE p

RECURSIVE ParseChars(_, _, _)
\* The characters of a string literal after its opening quote.  The escapes
\* \b, \f and \uXXXX do not occur in any text the model builds.
ParseChars(s, p, acc) ==
  IF p > Len(s) THEN ParseFail
  ELSE LET c == CharAt(s, p)
       IN CASE c = "\"" -> ParseOk(acc, p + 1)
            [] c \in {"\n", "\t", "\r"} -> ParseFail
            [] c = "\\" ->
                 IF p + 1 > Len(s) THEN ParseFail
                 ELSE LET e == CharAt(s, p + 1)
                      IN CASE e = "n" -> ParseChars(s, p + 2, acc \o "\n")
                           [] e = "t" -> ParseChars(s, p + 2, acc \o "\t")
                           [] e = "r" -> ParseChars(s, p + 2, acc \o "\r")
                           [] e \in {"\"", "\\", "/"} -> ParseChars(s, p + 2, acc \o e)
                           [] OTHER -> ParseFail
            [] OTHER -> ParseChars(s, p + 1, acc \o c)

RECURSIVE ParseDigits(_, _, _)
ParseDigits(s, p, acc) ==
  IF p <= Len(s) /\ CharAt(s, p) \in Digits
  THEN ParseDigits(s, p + 1, 10 * acc + DigitVal(CharAt(s, p)))
  ELSE ParseOk(acc, p)

\* An integer literal; fractions and exponents do not occur in the model.
ParseNumber(s, p) ==
  LET neg == CharAt(s, p) = "-"
      q == IF neg THEN p + 1 ELSE p
  IN IF q > Len(s) \/ CharAt(s, q) \notin Digits THEN ParseFail
     ELSE IF CharAt(s, q) = "0" THEN ParseOk(Num(0), q + 1)
     ELSE LET d == ParseDigits(s, q, 0)
          IN ParseOk(Num(IF neg THEN 0 - d.v ELSE d.v), d.p)

\* Setting a property: a repeated key keeps its place and takes the new value.
Put(o, k, v) ==
  IF \E i \in 1..Len(o) : o[i][1] = k
  THEN [i \in 1..Len(o) |-> IF o[i][1] = k THEN <<k, v>> ELSE o[i]]
  ELSE Append(o, <<k, v>>)

RECURSIVE ParseValue(_, _)
RECURSIVE ParseMembers(_, _, _)
RECURSIVE ParseElements(_, _, _)

\* p is at the first non-blank character of a value
ParseValue(s, p) ==
  IF p > Len(s) THEN ParseFail
  ELSE LET c == CharAt(s, p)
       IN CASE c = "{" ->
                 LET q == SkipWs(s, p + 1)
                 IN IF q <= Len(s) /\ CharAt(s, q) = "}"
                    THEN ParseOk(Obj(<<>>), q + 1)
                    ELSE ParseMembers(s, q, <<>>)
            [] c = "[" ->
                 LET q == SkipWs(s, p + 1)
                 IN IF q <= Len(s) /\ CharAt(s, q) = "]"
                    THEN ParseOk(Arr(<<>>), q + 1)
                    ELSE ParseElements(s, q, <<>>)
            [] c = "\"" ->
                 LET r == ParseChars(s, p + 1, "")
                 IN IF r.ok THEN ParseOk(Str(r.v), r.p) ELSE ParseFail
            [] c \in Digits \cup {"-"} -> ParseNumber(s, p)
            [] StartsWith(SubSeq(s, p, Len(s)), "true") -> ParseOk(Bool(TRUE), p + 4)
            [] StartsWith(SubSeq(s, p, Len(s)), "false") -> ParseOk(Bool(FALSE), p + 5)
            [] StartsWith(SubSeq(s, p, Len(s)), "null") -> ParseOk(Null, p + 4)
            [] OTHER -> ParseFail

\* p is at the first non-blank character of a member "key": value
ParseMembers(s, p, acc) ==
  IF p > Len(s) \/ CharAt(s, p) # "\"" THEN ParseFail
  ELSE LET k == ParseChars(s, p + 1, "")
           c == IF k.ok THEN SkipWs(s, k.p) ELSE 0
       IN IF ~k.ok \/ c > Len(s) \/ CharAt(s, c) # ":" THEN ParseFail
          ELSE LET r == ParseValue(s, SkipWs(s, c + 1))
                   q == IF r.ok THEN SkipWs(s, r.p) ELSE 0
               IN IF ~r.ok \/ q > Len(s) THEN ParseFail
                  ELSE IF CharAt(s, q) = "}"
                       THEN ParseOk(Obj(Put(acc, k.v, r.v)), q + 1)
                  ELSE IF CharAt(s, q) = ","
                       THEN ParseMembers(s, SkipWs(s, q + 1), Put(acc, k.v, r.v))
                  ELSE ParseFail

\* p is at the first non-blank character of an array element
ParseElements(s, p, acc) ==
  LET r == ParseValue(s, p)
      q == IF r.ok THEN SkipWs(s, r.p) ELSE 0
  IN IF ~r.ok \/ q > Len(s) THEN ParseFail
     ELSE IF CharAt(s, q) = "]" THEN ParseOk(Arr(Append(acc, r.v)), q + 1)
     ELSE IF CharAt(s, q) = ","
          THEN ParseElements(s, SkipWs(s, q + 1), Append(acc, r.v))
     ELSE ParseFail

\* JSON.parse(s): ok is FALSE where JSON.parse throws a SyntaxError
JSONParse(s) ==
  LET r == ParseValue(s, SkipWs(s, 1))
  IN IF r.ok /\ SkipWs(s, r.p) = Len(s) + 1
     THEN [ok |-> TRUE, v |-> r.v]
     ELSE [ok |-> FALSE, v |-> Undefined]

(***************************************************************************)
(* formatter.js: truncation                                                *)
(***************************************************************************)
LimitToolUseMeta == 2000
LimitToolUseContent == 0
LimitToolResult == 0
LimitThinking == 0
LimitUnknownBlock == 1000

\* truncate(str, max) for a string str and a number max
\* truncate with the length test of line 739 made strict
truncate_StrictLimit(str, max) ==
  IF str = "" \/ max = 0 \/ Len(str) < max THEN str
  ELSE Slice(str, max) \o "\n... (truncated)"

truncate(str, max) ==
  IF str = "" \/ max = 0 \/ Len(str) <= max THEN str
  ELSE Slice(str, max) \o "\n... (truncated)"

(***************************************************************************)
(* JavaScript conversions used by template literals and Array.join.        *)
(***************************************************************************)
RECURSIVE JsString(_)
\* String(v)
JsString(v) ==
  CASE v.t = "undefined" -> "undefined"
    [] v.t = "null" -> "null"
    [] v.t = "boolean" -> IF v.b THEN "true" ELSE "false"
    [] v.t = "number" -> ToString(v.n)
    [] v.t = "string" -> v.s
    [] v.t = "array" ->
         Join([i \in 1..Len(v.a) |->
                 IF IsNullish(v.a[i]) THEN "" ELSE JsString(v.a[i])], ",")
    [] OTHER -> "[object Object]"

\* Array.prototype.join(sep) of an array of values
JoinJs(vals, sep) ==
  Join([i \in 1..Len(vals) |->
          IF IsNullish(vals[i]) THEN "" ELSE JsString(vals[i])], sep)

RECURSIVE Concat(_)
\* The arrays of a list of arrays, one after the other
Concat(ss) == IF ss = <<>> THEN <<>> ELSE Head(ss) \o Concat(Tail(ss))

AnyThrows(vals) == \E i \in 1..Len(vals) : Throws(vals[i])

\* Object.entries(v)
Entries(v) ==
  CASE v.t = "object" -> v.o
    [] v.t = "array" -> [i \in 1..Len(v.a) |-> <<ToString(i - 1), v.a[i]>>]
    [] v.t = "string" -> [i \in 1..Len(v.s) |-> <<ToString(i - 1), Str(CharAt(v.s, i))>>]
    [] OTHER -> <<>>

\* v.length
Length(v) ==
  CASE v.t = "string" -> Num(Len(v.s))
    [] v.t = "array" -> Num(Len(v.a))
    [] OTHER -> Get(v, "length")

\* The values a for...of loop over v visits; ok is FALSE where v is not
\* iterable and the loop throws.
Iterate(v) ==
  CASE v.t = "array" -> [ok |-> TRUE, items |-> v.a]
    [] v.t = "string" -> [ok |-> TRUE, items |-> [i \in 1..Len(v.s) |-> Str(CharAt(v.s, i))]]
    [] OTHER -> [ok |-> FALSE, items |-> <<>>]

(***************************************************************************)
(* formatter.js: structured-data renderer                                  *)
(***************************************************************************)
YamlSpecial == {":", "#", "{", "}", "[", "]", ",", "&", "*", "?", "|", ">", "!", "%", "@", BQ}

\* The test that sends a single-line string to JSON.stringify
NeedsQuote(s) ==
  \/ \E i \in 1..Len(s) : CharAt(s, i) \in YamlSpecial
  \/ s = ""
  \/ s # Trim(s)

\* typeof v !== "object" || v === null
IsScalar(v) == v.t \notin {"object", "array"}

InlineArrayLimit == 80

RECURSIVE jsonToYaml(_, _)
\* jsonToYaml(obj, indent): the rendering, or TypeError where the source
\* reads entries[0][0] of an empty object held by a block-style array.
jsonToYaml(obj, indent) ==
  LET pad == Repeat("  ", indent)
  IN CASE obj.t \in {"null", "undefined"} -> Str("null")
       [] obj.t \in {"boolean", "number"} -> Str(JsString(obj))
       [] obj.t = "string" ->
            IF HasNewline(obj.s)
            THEN LET ls == Split(obj.s)
                 IN Str("|\n" \o Join([i \in 1..Len(ls) |-> pad \o "  " \o ls[i]], "\n"))
            ELSE IF NeedsQuote(obj.s) THEN Str(Quote(obj.s))
            ELSE obj
       [] obj.t = "array" ->
            IF obj.a = <<>> THEN Str("[]")
            ELSE IF /\ \A i \in 1..Len(obj.a) : IsScalar(obj.a[i])
                    /\ Len(Stringify(obj, "", "")) < InlineArrayLimit
            THEN Str("[" \o Join([i \in 1..Len(obj.a) |->
                                    IF IsStr(obj.a[i]) THEN Quote(obj.a[i].s)
                                    ELSE JsString(obj.a[i])], ", ") \o "]")
            ELSE LET item(i) ==
                       LET it == obj.a[i]
                       IN IF IsObj(it)
                          THEN IF it.o = <<>> THEN TypeError
                               ELSE LET sub == [k \in 1..Len(it.o) |-> jsonToYaml(it.o[k][2], indent + 2)]
                                    IN IF AnyThrows(sub) THEN TypeError
                                       ELSE Str(pad \o "- " \o it.o[1][1] \o ": " \o sub[1].s
                                                \o Join([k \in 1..(Len(it.o) - 1) |->
                                                           "\n" \o pad \o "  " \o it.o[k + 1][1]
                                                           \o ": " \o sub[k + 1].s], ""))
                          ELSE LET y == jsonToYaml(it, indent + 1)
                               IN IF Throws(y) THEN TypeError ELSE Str(pad \o "- " \o y.s)
                     items == [i \in 1..Len(obj.a) |-> item(i)]
                 IN IF AnyThrows(items) THEN TypeError
                    ELSE Str(Join([i \in 1..Len(items) |-> items[i].s], "\n"))
       [] OTHER ->
            IF obj.o = <<>> THEN Str("{}")
            ELSE LET entry(i) ==
                       LET val == obj.o[i][2]
                           yamlVal == jsonToYaml(val, indent + 1)
                       IN IF Throws(yamlVal) THEN TypeError
                          ELSE IF IsObj(val)
                               THEN Str(pad \o obj.o[i][1] \o ":\n" \o yamlVal.s)
                          ELSE Str(pad \o obj.o[i][1] \o ": " \o yamlVal.s)
                     es == [i \in 1..Len(obj.o) |-> entry(i)]
                 IN IF AnyThrows(es) THEN TypeError
                    ELSE Str(Join([i \in 1..Len(es) |-> es[i].s], "\n"))

(***************************************************************************)
(* formatter.js: tool-output unwrapper                                     *)
(***************************************************************************)
singleKeys == <<"output", "result", "text", "content", "message", "data">>

\* v?.trim(): undefined for a nullish v, the trimmed text of a string, and
\* a TypeError (trim is not a function) for anything else.
OptTrim(v) ==
  CASE IsNullish(v) -> Undefined
    [] IsStr(v) -> Str(Trim(v.s))
    [] OTHER -> TypeError

\* The command-output branch with the exit annotation of line 708 written
\* whatever the return code
unwrapEnvelope_AlwaysExit(parsed) ==
  LET out == OptTrim(Get(parsed, "stdout"))
      err == OptTrim(Get(parsed, "stderr"))
      parts == (IF Truthy(out) THEN <<out.s>> ELSE <<>>)
               \o (IF Truthy(err) THEN <<"**stderr:**\n" \o err.s>> ELSE <<>>)
      rc == " (exit " \o JsString(Get(parsed, "returncode")) \o ")"
  IN IF ~(HasKey(parsed, "stdout") /\ HasKey(parsed, "returncode")) THEN Undefined
     ELSE IF Throws(out) \/ Throws(err) THEN TypeError
     ELSE IF parts # <<>> THEN Str(Join(parts, "\n\n") \o "\n\n_" \o rc \o "_")
     ELSE Undefined

\* The command-output branch of unwrapToolOutput (lines 703-711): the text
\* it returns, Undefined when it falls through, TypeError when it throws
\* into the enclosing catch.
unwrapEnvelope(parsed) ==
  LET out == OptTrim(Get(parsed, "stdout"))
      err == OptTrim(Get(parsed, "stderr"))
      parts == (IF Truthy(out) THEN <<out.s>> ELSE <<>>)
               \o (IF Truthy(err) THEN <<"**stderr:**\n" \o err.s>> ELSE <<>>)
      code == Get(parsed, "returncode")
      rc == IF code # Num(0) THEN " (exit " \o JsString(code) \o ")" ELSE ""
  IN IF ~(HasKey(parsed, "stdout") /\ HasKey(parsed, "returncode")) THEN Undefined
     ELSE IF Throws(out) \/ Throws(err) THEN TypeError
     ELSE IF parts # <<>>
          THEN Str(Join(parts, "\n\n") \o (IF rc # "" THEN "\n\n_" \o rc \o "_" ELSE ""))
     ELSE Undefined

\* The single-value branch (lines 714-719): the first of singleKeys holding a
\* string, in an object of at most 3 keys.
unwrapSingle(parsed) ==
  LET hits == {i \in 1..Len(singleKeys) :
                 IsStr(Get(parsed, singleKeys[i])) /\ KeyCount(parsed) <= 3}
  IN IF hits = {} THEN Undefined
     ELSE Get(parsed, singleKeys[CHOOSE i \in hits : \A j \in hits : i <= j])

\* What unwrapToolOutput returns for a parsed object: the envelope text, else
\* the single value, else the body; a TypeError of the envelope branch is
\* caught (line 720) and gives the body.
unwrapPick(body, env, single) ==
  IF Throws(env) THEN body
  ELSE IF IsStr(env) THEN env
  ELSE IF IsStr(single) THEN single
  ELSE body

\* The try block of unwrapToolOutput (lines 699-722), r the outcome of
\* JSON.parse(trimmed)
unwrapParsed(body, r) ==
  IF ~r.ok THEN body ELSE unwrapPick(body, unwrapEnvelope(r.v), unwrapSingle(r.v))

unwrapTrimmed(body, trimmed) ==
  IF ~StartsWith(trimmed, "{") THEN body ELSE unwrapParsed(body, JSONParse(trimmed))

\* unwrapToolOutput(body); body.trim() throws when body is not a string
unwrapToolOutput(body) ==
  IF ~IsStr(body) THEN TypeError ELSE unwrapTrimmed(body, Trim(body.s))

(***************************************************************************)
(* formatter.js: flat-markdown block formatters                            *)
(***************************************************************************)
RICH_CONTENT_FIELDS ==
  {"content", "new_str", "old_str", "text", "body", "description", "message",
   "prompt", "code", "script", "markdown", "html", "new_string", "old_string",
   "file_text"}

\* The test of line 618
\* The rich-field test of line 617 without the allow-list
IsRichField_AnyKey(key, val) == IsStr(val) /\ HasNewline(val.s)

IsRichField(key, val) ==
  key \in RICH_CONTENT_FIELDS /\ IsStr(val) /\ HasNewline(val.s)

\* formatToolUse(block)
formatToolUse(block) ==
  LET name == Or(Get(block, "name"), Str("unknown_tool"))
      input == Or(Get(block, "input"), Obj(<<>>))
      es == Entries(input)
      richFields == SelectSeq(es, LAMBDA e : IsRichField(e[1], e[2]))
      metaFields == SelectSeq(es, LAMBDA e : ~IsRichField(e[1], e[2]))
      metaStr == Stringify(Obj(metaFields), "  ", "")
      head == <<"### Tool Use: " \o BQ \o JsString(name) \o BQ, "">>
      meta == IF Len(metaFields) > 0
              THEN <<Fence \o "json\n" \o truncate(metaStr, LimitToolUseMeta) \o "\n" \o Fence>>
              ELSE <<>>
      rich == Concat([i \in 1..Len(richFields) |->
                        <<"", "**" \o richFields[i][1] \o ":**", "",
                          truncate(richFields[i][2].s, LimitToolUseContent)>>])
  IN Str(Join(head \o meta \o rich, "\n"))

\* One element of a tool_result content array, as the flat formatter maps it
\* (lines 657-662); TypeError where c.type is read off null or undefined.
resultPart(c) ==
  IF IsStr(c) THEN c
  ELSE IF IsNullish(c) THEN TypeError
  ELSE IF Get(c, "type") = Str("text") THEN Or(Get(c, "text"), Str(""))
  ELSE IF Get(c, "type") = Str("image")
       THEN LET source == Get(c, "source")
                kind == IF IsNullish(source) THEN Undefined ELSE Get(source, "type")
            IN Str("[image: " \o JsString(Or(kind, Str("embedded"))) \o "]")
  ELSE JSONStringify(c, "  ")

\* The body of a tool_result before unwrapping (lines 650-666): a string,
\* undefined where JSON.stringify is given undefined, or TypeError.
resultBody(content) ==
  IF IsStr(content) THEN content
  ELSE IF IsArr(content)
       THEN LET parts == [i \in 1..Len(content.a) |-> resultPart(content.a[i])]
            IN IF AnyThrows(parts) THEN TypeError ELSE Str(JoinJs(parts, "\n"))
  ELSE JSONStringify(content, "  ")

ShortLineLimit == 200

\* The try block of formatToolResult once JSON.parse has succeeded (lines
\* 680-681); a TypeError of jsonToYaml lands in the catch of line 682.
renderYaml(head, body, yaml) ==
  IF Throws(yaml)
  THEN Str(head \o Fence \o "json\n" \o truncate(body, LimitToolResult) \o "\n" \o Fence)
  ELSE Str(head \o Fence \o "yaml\n" \o truncate(yaml.s, LimitToolResult) \o "\n" \o Fence)

\* The looksLikeJson branch (lines 677-684), r the outcome of JSON.parse(trimmed)
renderJson(head, body, r) ==
  IF r.ok THEN renderYaml(head, body, jsonToYaml(r.v, 0))
  ELSE Str(head \o Fence \o "json\n" \o truncate(body, LimitToolResult) \o "\n" \o Fence)

\* The classification of an unwrapped body (lines 673-690)
renderBody(head, isError, body, trimmed) ==
  LET looksLikeJson == StartsWith(trimmed, "{") \/ StartsWith(trimmed, "[")
      looksLikeCode == ~HasNewline(trimmed) /\ Len(trimmed) < ShortLineLimit
  IN IF looksLikeJson THEN renderJson(head, body, JSONParse(trimmed))
     ELSE IF looksLikeCode \/ isError
          THEN Str(head \o Fence \o "\n" \o truncate(body, LimitToolResult) \o "\n" \o Fence)
     ELSE Str(head \o truncate(body, LimitToolResult))

\* Lines 669-690 for the body unwrapToolOutput returned
renderUnwrapped(head, isError, body) ==
  IF Throws(body) THEN TypeError ELSE renderBody(head, isError, body.s, Trim(body.s))

\* unwrapToolOutput applied to the normalised content
unwrapContent(raw) == IF Throws(raw) THEN TypeError ELSE unwrapToolOutput(raw)

\* The header line of formatToolResult (lines 646-648)
resultPrefix(block) ==
  "Tool Result"
  \o (IF Truthy(Get(block, "name")) THEN " (" \o JsString(Get(block, "name")) \o ")" ELSE "")
  \o (IF Truthy(Get(block, "is_error")) THEN " (ERROR)" ELSE "")

\* formatToolResult(block)
formatToolResult(block) ==
  renderUnwrapped("### " \o resultPrefix(block) \o "\n\n",
                  Truthy(Get(block, "is_error")),
                  unwrapContent(resultBody(Get(block, "content"))))

\* block.summaries.map((s) => s.summary || s).join(" "), or TypeError where
\* summaries has no map or holds a nullish element
summaryText(summaries) ==
  IF ~IsArr(summaries) THEN TypeError
  ELSE IF \E i \in 1..Len(summaries.a) : IsNullish(summaries.a[i]) THEN TypeError
  ELSE Str(JoinJs([i \in 1..Len(summaries.a) |->
                     Or(Get(summaries.a[i], "summary"), summaries.a[i])], " "))

\* block.summaries?.length
summariesLength(block) ==
  IF IsNullish(Get(block, "summaries")) THEN Undefined
  ELSE Length(Get(block, "summaries"))

\* formatThinking without the empty-text return of line 729
formatThinking_NoEmptyReturn(block) ==
  LET text == Or(Get(block, "thinking"), Str(""))
      st == summaryText(Get(block, "summaries"))
      shown == IF IsStr(text) THEN truncate(text.s, LimitThinking) ELSE JsString(text)
  IN IF Truthy(summariesLength(block)) /\ Throws(st) THEN TypeError
     ELSE Str("<details>\n<summary>Thinking"
              \o (IF Truthy(Get(block, "cut_off")) THEN " (truncated)" ELSE "")
              \o "</summary>\n\n" \o shown
              \o (IF Truthy(summariesLength(block)) THEN "\n\n**Summary:** " \o st.s ELSE "")
              \o "\n\n</details>")

\* formatThinking(block)
formatThinking(block) ==
  LET text == Or(Get(block, "thinking"), Str(""))
      st == summaryText(Get(block, "summaries"))
      shown == IF IsStr(text) THEN truncate(text.s, LimitThinking) ELSE JsString(text)
  IN IF ~Truthy(text) THEN Null
     ELSE IF Truthy(summariesLength(block)) /\ Throws(st) THEN TypeError
     ELSE Str("<details>\n<summary>Thinking"
              \o (IF Truthy(Get(block, "cut_off")) THEN " (truncated)" ELSE "")
              \o "</summary>\n\n" \o shown
              \o (IF Truthy(summariesLength(block)) THEN "\n\n**Summary:** " \o st.s ELSE "")
              \o "\n\n</details>")

\* formatBlock(block)
formatBlock(block) ==
  IF IsStr(block) THEN block
  ELSE IF IsNullish(block) THEN TypeError
  ELSE LET type == Get(block, "type")
       IN CASE type = Str("text") -> Or(Get(block, "text"), Str(""))
            [] type = Str("tool_use") -> formatToolUse(block)
            [] type = Str("tool_result") -> formatToolResult(block)
            [] type = Str("thinking") -> formatThinking(block)
            [] type = Str("token_budget") -> Null
            [] OTHER ->
                 Str("<!-- unknown block type: " \o JsString(type) \o " -->\n"
                     \o Fence \o "json\n"
                     \o truncate(Stringify(block, "  ", ""), LimitUnknownBlock)
                     \o "\n" \o Fence)

\* The attachment bullets of formatMessage (lines 567-573): the lines pushed,
\* or TypeError.  fallback is the key read after file_type.
attachmentLines(msg, prefix, fallback) ==
  LET atts == Get(msg, "attachments")
      len == IF IsNullish(atts) THEN Undefined ELSE Length(atts)
      it == Iterate(atts)
      line(att) == Str(prefix
                       \o JsString(Or(Or(Get(att, "file_name"), Get(att, "name")), Str("file")))
                       \o " ("
                       \o JsString(Or(IF fallback = "" THEN Get(att, "file_type")
                                      ELSE Or(Get(att, "file_type"), Get(att, fallback)),
                                      Str("unknown")))
                       \o ")")
  IN IF ~Truthy(len) THEN <<>>
     ELSE IF ~it.ok \/ \E i \in 1..Len(it.items) : IsNullish(it.items[i]) THEN <<TypeError>>
     ELSE [i \in 1..Len(it.items) |-> line(it.items[i])]

\* The lines formatMessage pushes for an array content (lines 554-560)
blockLines(blocks) ==
  IF AnyThrows(blocks) THEN <<TypeError>>
  ELSE Concat([i \in 1..Len(blocks) |->
                 IF Truthy(blocks[i]) THEN <<blocks[i], Str("")>> ELSE <<>>])

\* The body lines of formatMessage (lines 549-564)
messageBody(msg, content) ==
  IF IsStr(content) THEN <<content>>
  ELSE IF IsArr(content)
       THEN blockLines([i \in 1..Len(content.a) |-> formatBlock(content.a[i])])
  ELSE IF Truthy(Get(msg, "text")) THEN <<Get(msg, "text")>>
  ELSE <<>>

assembleMessage(label, body, atts) ==
  IF AnyThrows(body) \/ AnyThrows(atts) THEN TypeError
  ELSE Str(JoinJs(<<Str("## " \o label), Str("")>> \o body
                  \o (IF atts = <<>> THEN <<>> ELSE <<Str(""), Str("**Attachments:**")>> \o atts),
                  "\n"))

\* formatMessage(msg)
formatMessage(msg) ==
  IF IsNullish(msg) THEN TypeError
  ELSE assembleMessage(IF Or(Get(msg, "sender"), Str("unknown")) = Str("human")
                       THEN "Human" ELSE "Assistant",
                       messageBody(msg, Get(msg, "content")),
                       attachmentLines(msg, "- ", "content_type"))

NoMessages == "<!-- No messages found in capture -->"

\* data?.chat_messages || []
messagesOf(data) ==
  IF IsNullish(data) THEN Arr(<<>>) ELSE Or(Get(data, "chat_messages"), Arr(<<>>))

\* The header of lines 517-524 without the model line of line 520
flatHeader_NoModel(data, meta, now, messages) ==
  <<"<!-- float-export v0.1 -->",
    "<!-- conversation: "
      \o JsString(Or(Or(Get(data, "uuid"), Get(meta, "conversationId")), Str("unknown")))
      \o " -->",
    "<!-- exported: " \o now \o " -->",
    "<!-- messages: " \o JsString(Length(messages)) \o " -->",
    "",
    "# " \o JsString(Or(Or(Get(data, "name"), Get(meta, "name")), Str("Claude Conversation"))),
    "">>

\* The header formatConversation pushes (lines 517-524)
flatHeader(data, meta, now, messages) ==
  <<"<!-- float-export v0.1 -->",
    "<!-- conversation: "
      \o JsString(Or(Or(Get(data, "uuid"), Get(meta, "conversationId")), Str("unknown")))
      \o " -->",
    "<!-- exported: " \o now \o " -->",
    "<!-- model: " \o JsString(Or(Get(data, "model"), Str("unknown"))) \o " -->",
    "<!-- messages: " \o JsString(Length(messages)) \o " -->",
    "",
    "# " \o JsString(Or(Or(Get(data, "name"), Get(meta, "name")), Str("Claude Conversation"))),
    "">>

\* The loop of lines 528-536 over the formatted messages, and the join
flatSections(header, formatted) ==
  IF AnyThrows(formatted) THEN TypeError
  ELSE Str(Join(header \o Concat([i \in 1..Len(formatted) |->
                                    IF Truthy(formatted[i])
                                    THEN <<formatted[i].s, "", "---", "">> ELSE <<>>]),
                "\n"))

flatDocument(header, it) ==
  IF ~it.ok THEN TypeError
  ELSE flatSections(header, [i \in 1..Len(it.items) |-> formatMessage(it.items[i])])

\* formatConversation without the empty-conversation return of line 512
formatConversation_NoSentinel(data, meta, now) ==
  flatDocument(flatHeader(data, meta, now, messagesOf(data)), Iterate(messagesOf(data)))

\* formatConversation(data, meta) at the time now
formatConversation(data, meta, now) ==
  IF ~Truthy(Length(messagesOf(data))) THEN Str(NoMessages)
  ELSE flatDocument(flatHeader(data, meta, now, messagesOf(data)), Iterate(messagesOf(data)))

(***************************************************************************)
(* formatter.js: outliner format                                           *)
(***************************************************************************)
\* An array of output lines, as the outliner helpers return it
Lines(l) == [t |-> "lines", l |-> l]

Indent(ls, pad) == [i \in 1..Len(ls) |-> pad \o ls[i]]

ARROW == "→ "

\* v.slice(0, n) inside a template literal: a string is cut, an array is cut
\* and joined by commas, and any other value has no slice method.
SliceText(v, n) ==
  CASE IsStr(v) -> Str(Slice(v.s, n))
    [] IsArr(v) -> Str(JsString(Arr(SubSeq(v.a, 1, n))))
    [] OTHER -> TypeError

\* toolCallSummary(name, input)
toolCallSummary(name, input) ==
  LET f(k) == Get(input, k)
  IN CASE Truthy(f("file_path")) -> Str(ARROW \o JsString(f("file_path")))
       [] Truthy(f("path")) -> Str(ARROW \o JsString(f("path")))
       [] Truthy(f("command")) ->
            IF IsStr(f("command"))
            THEN Str(ARROW \o Slice(Split(f("command").s)[1], 80))
            ELSE TypeError
       [] Truthy(f("pattern")) -> Str(ARROW \o JsString(f("pattern")))
       [] Truthy(f("query")) ->
            IF Throws(SliceText(f("query"), 80)) THEN TypeError
            ELSE Str(ARROW \o SliceText(f("query"), 80).s)
       [] Truthy(f("url")) ->
            IF Throws(SliceText(f("url"), 80)) THEN TypeError
            ELSE Str(ARROW \o SliceText(f("url"), 80).s)
       [] Truthy(f("skill")) -> Str(ARROW \o JsString(f("skill")))
       [] Truthy(f("title")) ->
            IF Throws(SliceText(f("title"), 80)) THEN TypeError
            ELSE Str(ARROW \o SliceText(f("title"), 80).s)
       [] OTHER -> Str("")

\* extractPlainText(content)
extractPlainText(content) ==
  IF IsStr(content) THEN content
  ELSE IF ~IsArr(content) THEN Str("")
  ELSE IF \E i \in 1..Len(content.a) : IsNullish(content.a[i]) THEN TypeError
  ELSE LET texts == SelectSeq(content.a, LAMBDA b : Get(b, "type") = Str("text"))
       IN Str(JoinJs([i \in 1..Len(texts) |-> Or(Get(texts[i], "text"), Str(""))], "\n"))

\* extractToolResultText(content)
extractToolResultText(content) ==
  LET part(c) ==
        IF IsStr(c) THEN c
        ELSE IF IsNullish(c) THEN TypeError
        ELSE IF Get(c, "type") = Str("text") THEN Or(Get(c, "text"), Str(""))
        ELSE IF Get(c, "type") = Str("image") THEN Str("[image]")
        ELSE JSONStringify(c, "")
  IN IF IsStr(content) THEN content
     ELSE IF IsArr(content)
          THEN LET parts == [i \in 1..Len(content.a) |-> part(content.a[i])]
               IN IF AnyThrows(parts) THEN TypeError ELSE Str(JoinJs(parts, "\n"))
     ELSE JSONStringify(content, "  ")

\* outlinerText(block)
outlinerText(block) ==
  LET text == Or(Get(block, "text"), Str(""))
  IN IF ~IsStr(text) THEN TypeError
     ELSE IF Trim(text.s) = "" THEN Null
     ELSE Lines(Indent(Split(text.s), "  "))

\* The lines outlinerToolUse nests for one input field (lines 858-873)
inputFieldLines(key, val) ==
  IF IsStr(val) /\ HasNewline(val.s)
  THEN <<"    " \o key \o "::">> \o Indent(Split(val.s), "      ")
  ELSE IF IsStr(val) /\ Len(val.s) > 120
       THEN <<"    " \o key \o ":: " \o Slice(val.s, 120) \o "...">>
  ELSE IF val.t \in {"object", "array"}
       THEN <<"    " \o key \o ":: " \o Stringify(val, "", "")>>
  ELSE <<"    " \o key \o ":: " \o JsString(val)>>

\* outlinerToolUse(block)
outlinerToolUse(block) ==
  LET name == Or(Get(block, "name"), Str("unknown"))
      input == Or(Get(block, "input"), Obj(<<>>))
      summary == toolCallSummary(name, input)
      es == Entries(input)
  IN IF Throws(summary) THEN TypeError
     ELSE Lines(<<"  tool:: " \o JsString(name) \o " " \o summary.s>>
                \o Concat([i \in 1..Len(es) |-> inputFieldLines(es[i][1], es[i][2])]))

\* The lines of outlinerToolResult for the unwrapped body (lines 887-895)
resultLines(label, body) ==
  IF Throws(body) THEN TypeError
  ELSE Lines(<<"    " \o label \o " " \o Slice(Split(body.s)[1], 120)>>
             \o Indent(Tail(Split(body.s)), "      "))

\* The label of outlinerToolResult (lines 879-881)
resultLabel(block) ==
  (IF Truthy(Get(block, "is_error")) THEN "result:: ERROR" ELSE "result::")
  \o (IF Truthy(Or(Get(block, "name"), Str("")))
      THEN " " \o JsString(Get(block, "name")) ELSE "")

\* outlinerToolResult(block)
outlinerToolResult(block) ==
  resultLines(resultLabel(block), unwrapContent(extractToolResultText(Get(block, "content"))))

\* outlinerThinking(block)
outlinerThinking(block) ==
  LET text == Or(Get(block, "thinking"), Str(""))
      st == summaryText(Get(block, "summaries"))
      ls == Split(text.s)
  IN IF ~IsStr(text) THEN TypeError
     ELSE IF Trim(text.s) = "" THEN Null
     ELSE IF Truthy(summariesLength(block)) /\ Throws(st) THEN TypeError
     ELSE Lines(<<"  thinking:: " \o Slice(ls[1], 80)
                    \o (IF HasNewline(text.s) THEN "..." ELSE "")>>
                \o Indent(ls, "    ")
                \o (IF Truthy(summariesLength(block))
                    THEN <<"    summary:: " \o st.s>> ELSE <<>>))

\* outlinerBlock(block)
outlinerBlock(block) ==
  IF IsStr(block) THEN Lines(Indent(Split(block.s), "  "))
  ELSE IF IsNullish(block) THEN TypeError
  ELSE LET type == Get(block, "type")
       IN CASE type = Str("text") -> outlinerText(block)
            [] type = Str("tool_use") -> outlinerToolUse(block)
            [] type = Str("tool_result") -> outlinerToolResult(block)
            [] type = Str("thinking") -> outlinerThinking(block)
            [] type = Str("token_budget") -> Null
            [] OTHER -> Lines(<<"  unknown:: " \o JsString(type)>>)

\* The human branch of outlinerMessage (lines 777-795)
outlinerHuman(msg) ==
  LET plain == extractPlainText(Get(msg, "content"))
      text == Or(Or(plain, Get(msg, "text")), Str(""))
      ls == Split(text.s)
      rest == Trim(Join(Tail(ls), "\n"))
      atts == attachmentLines(msg, "  attachment:: ", "")
  IN IF Throws(plain) \/ ~IsStr(text) \/ AnyThrows(atts) THEN TypeError
     ELSE Lines(<<"user:: " \o Slice(ls[1], 120)>>
                \o (IF rest # "" THEN Indent(Split(rest), "  ") ELSE <<>>)
                \o [i \in 1..Len(atts) |-> atts[i].s])

\* The lines an assistant message gets from its blocks (lines 805-810)
responseLines(blocks) ==
  IF AnyThrows(blocks) THEN TypeError
  ELSE Lines(<<"response::">>
             \o Concat([i \in 1..Len(blocks) |->
                          IF blocks[i].t = "lines" THEN blocks[i].l ELSE <<>>]))

\* The assistant branch of outlinerMessage (lines 796-816)
outlinerAssistant(msg, content, text) ==
  IF IsStr(content) THEN Lines(<<"response::">> \o Indent(Split(content.s), "  "))
  ELSE IF IsArr(content)
       THEN responseLines([i \in 1..Len(content.a) |-> outlinerBlock(content.a[i])])
  ELSE IF Truthy(text)
       THEN IF IsStr(text) THEN Lines(<<"response::">> \o Indent(Split(text.s), "  "))
            ELSE TypeError
  ELSE Lines(<<"response::">>)

\* outlinerMessage(msg)
outlinerMessage(msg) ==
  IF IsNullish(msg) THEN TypeError
  ELSE LET sender == Or(Get(msg, "sender"), Str("unknown"))
       IN IF sender = Str("human") \/ sender = Str("user")
          THEN outlinerHuman(msg)
          ELSE outlinerAssistant(msg, Get(msg, "content"), Get(msg, "text"))

EmptyExport == "export:: empty conversation"

\* The header block formatForOutliner pushes (lines 756-761)
outlinerHeader(data, meta, now, messages) ==
  <<"export:: "
      \o JsString(Or(Or(Get(data, "name"), Get(meta, "name")), Str("Claude Conversation"))),
    "  model:: " \o JsString(Or(Get(data, "model"), Str("unknown"))),
    "  messages:: " \o JsString(Length(messages)),
    "  exported:: " \o now,
    "  id:: "
      \o JsString(Or(Or(Get(data, "uuid"), Get(meta, "conversationId")), Str("unknown")))>>

\* The loop of lines 763-767 over the messages' lines, and the join
outlinerSections(header, blocks) ==
  IF AnyThrows(blocks) THEN TypeError
  ELSE Str(Join(header \o Concat([i \in 1..Len(blocks) |-> <<"">> \o blocks[i].l]), "\n"))

outlinerDocument(header, it) ==
  IF ~it.ok THEN TypeError
  ELSE outlinerSections(header, [i \in 1..Len(it.items) |-> outlinerMessage(it.items[i])])

\* formatForOutliner(data, meta) at the time now
formatForOutliner(data, meta, now) ==
  IF ~Truthy(Length(messagesOf(data))) THEN Str(EmptyExport)
  ELSE outlinerDocument(outlinerHeader(data, meta, now, messagesOf(data)),
                        Iterate(messagesOf(data)))

(***************************************************************************)
(* Inputs.  Every function is applied to values drawn from the bounded     *)
(* sets below; a JSON text is always built by serialising a value, so the  *)
(* parser sees well-formed and (by chopping) ill-formed texts.             *)
(***************************************************************************)
MaxStrLen == 3
MaxLimit == 4
MaxExtraKeys == 2
MaxInputFields == 2
MaxMsgs == 2

RECURSIVE StringsUpTo(_)
\* The strings of at most n characters over a, b and newline
StringsUpTo(n) ==
  IF n = 0 THEN {""}
  ELSE LET prev == StringsUpTo(n - 1)
       IN prev \cup {s \o c : s \in {x \in prev : Len(x) = n - 1}, c \in {"a", "b", "\n"}}

RECURSIVE Combos(_, _)
\* The entry lists that give each of the first n fields of opts one of its
\* values, or leave it out
Combos(opts, n) ==
  IF n = 0 THEN {<<>>}
  ELSE LET prev == Combos(opts, n - 1)
       IN prev \cup {e \o << <<opts[n][1], v>> >> : e \in prev, v \in opts[n][2]}

RECURSIVE SeqsUpTo(_, _)
\* The sequences of at most n elements of S
SeqsUpTo(S, n) ==
  IF n = 0 THEN {<<>>}
  ELSE LET prev == SeqsUpTo(S, n - 1)
       IN prev \cup {Append(q, x) : q \in {y \in prev : Len(y) = n - 1}, x \in S}

TruncateInputs ==
  {[k |-> "truncate", str |-> s, max |-> m] : s \in StringsUpTo(MaxStrLen), m \in 0..MaxLimit}

\* Tool outputs: command envelopes, single-value wrappers and mixtures
EnvelopeFields ==
  << <<"returncode", {Num(0), Num(1)}>>,
     <<"stdout", {Str(" \n"), Str("hello\n"), Num(5)}>>,
     <<"stderr", {Str(""), Str(" oops\n")}>>,
     <<"result", {Str("res"), Num(7)}>>,
     <<"output", {Str("out")}>> >>
  \o [i \in 1..MaxExtraKeys |-> <<"k" \o ToString(i), {Num(i)}>>]

ToolOutputs == {Obj(e) : e \in Combos(EnvelopeFields, Len(EnvelopeFields))}

\* The text of a tool output: compact, or indented and padded with blanks
BodyInputs ==
  {[k |-> "body", obj |-> o, body |-> Stringify(o, "", "")] : o \in ToolOutputs}
  \cup {[k |-> "body", obj |-> o, body |-> "  " \o Stringify(o, "  ", "") \o "\n"] :
          o \in {x \in ToolOutputs : KeyCount(x) <= 2}}
  \cup {[k |-> "body", obj |-> Undefined, body |-> b] :
          b \in {"", "hello", "{oops", "{\"output\":\"out\"", "[\"output\"]", "\"out\""}}

Block(type, fields) == Obj(<< <<"type", Str(type)>> >> \o fields)

TextBlock(s) == Block("text", << <<"text", Str(s)>> >>)

\* tool_result contents: texts, sub-block arrays and other values
ResultContents ==
  {Str(s) : s \in {"", "ok", "  padded \n", "line1\nline2",
                   Repeat("x", ShortLineLimit - 1), Repeat("x", ShortLineLimit),
                   "{\"a\":1,\"b\":\"x\\ny\"}", "[1,2]", "[{}]", "{\"a\":[{}]}", "{}",
                   "{oops", "[not json", " [1,\n2] ",
                   "{\"returncode\":0,\"stdout\":\"hello\\n\",\"stderr\":\"\"}",
                   "{\"returncode\":1,\"stdout\":\"[1]\",\"stderr\":\"\"}",
                   "{\"output\":\"{\\\"a\\\":1}\"}"}}
  \cup {Arr(<<TextBlock("one"), Block("image", <<>>), Block("other", <<>>)>>),
        Arr(<<Str("s1"), TextBlock("two\nlines")>>),
        Arr(<<Null>>), Arr(<<>>),
        Obj(<< <<"k", Str("v")>> >>), Num(5), Null}

ResultBlocks ==
  {Block("tool_result", c \o e \o n) :
     c \in {<<>>} \cup {<< <<"content", v>> >> : v \in ResultContents},
     e \in {<<>>, << <<"is_error", Bool(TRUE)>> >>, << <<"is_error", Bool(FALSE)>> >>},
     n \in {<<>>, << <<"name", Str("bash")>> >>}}

ResultInputs == {[k |-> "result", block |-> b] : b \in ResultBlocks}

\* tool_use inputs: up to MaxInputFields fields with distinct names
InputKeys == <<"file_path", "content", "text", "command", "note">>
InputValues ==
  {Str("/tmp/x.py"), Str("line1\nline2"), Num(5), Null,
   Arr(<<Str("a\nb")>>), Obj(<< <<"content", Str("c\nd")>> >>)}

InputEntries ==
  {e \in SeqsUpTo({<<InputKeys[i], v>> : i \in 1..Len(InputKeys), v \in InputValues},
                  MaxInputFields) :
     \A i, j \in 1..Len(e) : i # j => e[i][1] # e[j][1]}

LongLine == Repeat("x", LimitToolUseMeta)
LongText == Repeat("y\n", LimitToolUseMeta)

UseBlocks ==
  {Block("tool_use", << <<"name", Str("write")>>, <<"input", Obj(e)>> >>) : e \in InputEntries}
  \cup {Block("tool_use", <<>>),
        Block("tool_use", << <<"input", Str("ab")>> >>),
        Block("tool_use", << <<"name", Str("write")>>,
                             <<"input", Obj(<< <<"file_path", Str(LongLine)>>,
                                               <<"content", Str(LongText)>> >>)>> >>)}

UseInputs == {[k |-> "use", block |-> b] : b \in UseBlocks}

\* Messages
Senders == {<<>>, << <<"sender", Str("human")>> >>, << <<"sender", Str("user")>> >>,
            << <<"sender", Str("assistant")>> >>}

MessageContents ==
  {<< <<"content", Str("hello\nworld")>> >>,
   << <<"text", Str("fallback")>> >>,
   << <<"content", Arr(<<TextBlock("hi"), Block("image", << <<"id", Num(1)>> >>)>>)>> >>,
   << <<"content", Arr(<<Block("citation", <<>>)>>)>> >>,
   << <<"content", Arr(<<Obj(<< <<"text", Str("untyped")>> >>)>>)>> >>,
   << <<"content", Arr(<<Block("token_budget", <<>>), TextBlock("after")>>)>> >>,
   << <<"content", Arr(<<Block("thinking", << <<"thinking", Str("hmm")>> >>)>>)>> >>,
   << <<"content", Arr(<<Block("thinking", << <<"thinking", Str("")>>,
                                              <<"summaries", Arr(<<Str("s1")>>)>>,
                                              <<"cut_off", Bool(TRUE)>> >>),
                         TextBlock("after")>>)>> >>,
   << <<"content", Arr(<<TextBlock("hi"), Null>>)>> >>,
   << <<"content", Arr(<<Block("tool_result", << <<"name", Str("bash")>> >>)>>)>> >>,
   << <<"content", Arr(<<Block("tool_result", << <<"content", Arr(<<Null>>)>> >>)>>)>> >>,
   << <<"content", Arr(<<Block("tool_use", << <<"name", Str("bash")>>,
                                              <<"input", Obj(<< <<"command", Num(5)>> >>)>> >>)>>)>> >>,
   << <<"content", Arr(<<Block("tool_use", << <<"name", Str("search")>>,
                                              <<"input", Obj(<< <<"query", Str("q")>> >>)>> >>)>>)>> >>}

VariedMessages == {Obj(s \o c) : s \in Senders, c \in MessageContents}

\* Messages told apart by their text, with arbitrary parent links
LinkedMessages ==
  {Obj(<< <<"uuid", Str("u" \o ToString(i))>>,
          <<"parent_message_uuid", Str("u" \o ToString(p))>>,
          <<"sender", Str(IF i % 2 = 1 THEN "human" ELSE "assistant")>>,
          <<"content", Str("m" \o ToString(i))>> >>) : i \in 1..(MaxMsgs + 1), p \in {0, MaxMsgs + 1}}

Conversation(msgs) ==
  Obj(<< <<"uuid", Str("c-1")>>, <<"name", Str("Title")>>, <<"chat_messages", msgs>> >>)

ConversationData ==
  {Undefined, Null, Obj(<<>>), Obj(<< <<"name", Str("Title")>> >>),
   Conversation(Null), Conversation(Arr(<<>>))}
  \cup {Conversation(Arr(<<m>>)) : m \in VariedMessages \cup {Null, Str("m")}}
  \cup {Conversation(Arr(q)) : q \in SeqsUpTo(LinkedMessages, MaxMsgs) \ {<<>>}}

Clock == {"2026-01-01T00:00:00.000Z"}

Metas == {Obj(<<>>), Obj(<< <<"conversationId", Str("c-9")>>, <<"name", Str("Page")>> >>)}

ConversationInputs ==
  {[k |-> "conv", data |-> d, meta |-> m, now |-> t] :
     d \in ConversationData, m \in Metas, t \in Clock}

\* Thinking blocks
ThinkingBlocks ==
  {Block("thinking", t \o u \o c) :
     t \in {<<>>, << <<"thinking", Null>> >>, << <<"thinking", Str("")>> >>,
            << <<"thinking", Str(" ")>> >>, << <<"thinking", Str("hmm")>> >>,
            << <<"thinking", Str("a\nb")>> >>},
     u \in {<<>>, << <<"summaries", Arr(<<>>)>> >>,
            << <<"summaries", Arr(<<Str("s1"), Obj(<< <<"summary", Str("s2")>> >>)>>)>> >>},
     c \in {<<>>, << <<"cut_off", Bool(TRUE)>> >>}}

ThinkingInputs == {[k |-> "thinking", block |-> b] : b \in ThinkingBlocks}

\* Parsed JSON values handed to jsonToYaml
YamlScalars ==
  {Null, Bool(TRUE), Bool(FALSE), Num(0), Num(5), Num(-1),
   Str(""), Str("a"), Str("a b"), Str(" a"), Str("true"), Str("false"), Str("null"),
   Str("5"), Str("-1"), Str("x: y"), Str("[]"), Str("[1, 2]"), Str("{}")}

YamlArrays == {Arr(q) : q \in SeqsUpTo(YamlScalars, 2)}

YamlObjects ==
  {Obj(<< <<"a", Num(1)>>, <<"b", Str("x\ny")>> >>),
   Obj(<< <<"b", Str("x")>>, <<"a", Arr(<<Num(1), Num(2)>>)>> >>),
   Obj(<< <<"a", Obj(<< <<"b", Num(1)>> >>)>>, <<"c", Null>> >>),
   Obj(<< <<"a", Obj(<<>>)>> >>),
   Obj(<< <<"a", Arr(<<>>)>> >>),
   Obj(<< <<"a", Arr(<<Arr(<<Num(1)>>)>>)>> >>),
   Obj(<< <<"a", Arr(<<Obj(<< <<"b", Num(1)>>, <<"c", Str("x")>> >>)>>)>>, <<"d", Bool(TRUE)>> >>),
   Obj(<< <<"a", Obj(<< <<"b", Obj(<< <<"c", Arr(<<Str("p\nq")>>)>> >>)>> >>)>> >>)}

YamlInputs == {[k |-> "yaml", v |-> v] : v \in YamlScalars \cup YamlArrays \cup YamlObjects}

Inputs == TruncateInputs \cup BodyInputs \cup ResultInputs \cup UseInputs
          \cup ConversationInputs \cup ThinkingInputs \cup YamlInputs

(***************************************************************************)
(* background.js: the service worker.  chrome.storage.local is a map from  *)
(* key strings to values.  A storage call takes effect when it is issued   *)
(* and its promise resolves in a later step, so the handlers interleave at *)
(* their awaits.  capturedAt is an ISO timestamp; timestamps are modelled  *)
(* by numbers in time order (localeCompare on ISO strings is time order),  *)
(* 0 standing for a capture without one.                                   *)
(***************************************************************************)
keepCount == 5
maxAttempts == 240

MaxCaptures == 2
MaxTime == 3

\* chrome.storage.local.set({[k]: v}) and chrome.storage.local.remove(ks)
StorageSet(st, k, v) == [x \in DOMAIN st \cup {k} |-> IF x = k THEN v ELSE st[x]]
StorageRemove(st, ks) == [x \in DOMAIN st \ ks |-> st[x]]

\* The entry handleCapture stores (lines 41-47)
CaptureEntry(id, at) == [capturedAt |-> at, conversationId |-> id]

\* captures.slice(keepCount) of evictOldCaptures for the snapshot all (lines
\* 71-78): the {key, capturedAt} records after the first keepCount in
\* descending capturedAt order.  Records with equal capturedAt may come in
\* either order, so there is a set of candidates; nothing is to be removed
\* when there are at most keepCount captures (line 76).
toRemoveOf(all) ==
  LET captures == {[key |-> k, capturedAt |-> all[k].capturedAt] :
                     k \in {x \in DOMAIN all : StartsWith(x, "conv_")}}
  IN IF Cardinality(captures) <= keepCount THEN {{}}
     ELSE {captures \ kept :
             kept \in {K \in SUBSET captures :
                         /\ Cardinality(K) = keepCount
                         /\ \A c \in K, r \in captures \ K : c.capturedAt >= r.capturedAt}}

\* The keys to remove without the meta_ keys of line 80
keysToRemove_ConvOnly(toRemove) == {c.key : c \in toRemove}

\* [...toRemove, ...metaKeys] (lines 78-81): the keys of the records and, for
\* each, the key with conv_ replaced by meta_
keysToRemove(toRemove) ==
  {c.key : c \in toRemove} \cup {"meta_" \o SubSeq(c.key, 6, Len(c.key)) : c \in toRemove}

\* getStatus(conversationId) (lines 97-114), read off the storage st
getStatus(st, conversationId) ==
  IF conversationId = "" \/ ("conv_" \o conversationId) \notin DOMAIN st
  THEN [captured |-> FALSE, conversationId |-> conversationId, capturedAt |-> 0]
  ELSE [captured |-> TRUE, conversationId |-> conversationId,
        capturedAt |-> st["conv_" \o conversationId].capturedAt]

\* Captures of earlier sessions, oldest first, each with its page metadata
OldCaptures == <<CaptureEntry("a", 0), CaptureEntry("b", 1), CaptureEntry("c", 2),
                 CaptureEntry("d", 2), CaptureEntry("e", 3)>>

RECURSIVE StoreOf(_)
StoreOf(n) ==
  IF n = 0 THEN <<>>
  ELSE StorageSet(StorageSet(StoreOf(n - 1),
                             "conv_" \o OldCaptures[n].conversationId, OldCaptures[n]),
                  "meta_" \o OldCaptures[n].conversationId,
                  [conversationId |-> OldCaptures[n].conversationId])

InitialStores == {StoreOf(0), StoreOf(keepCount - 1), StoreOf(keepCount)}

\* Conversations the pages send captures of: the oldest stored one and two
\* new ones
CapturedIds == {"a", "f", "g"}
CaptureTimes == (MaxTime - 1)..MaxTime
TabIds == {0, 1}

ExportIdle ==
  [pc |-> "idle", conversationId |-> "", attempts |-> 0, fetchError |-> FALSE,
   responses |-> <<>>]

\* interceptor.js before a call: nothing posted, nothing returned
PageIdle ==
  [pc |-> "idle", call |-> "none", url |-> "", resp |-> Undefined, remaining |-> 0,
   throws |-> FALSE, warned |-> FALSE, posted |-> <<>>, returned |-> Undefined]

\* The popup before a click
PopupIdle == [pc |-> "idle", conversationId |-> "", result |-> <<>>]

PagesIdle == page = PageIdle /\ popup = PopupIdle

WorkerIdle ==
  /\ storage = <<>>
  /\ handlers = <<>>
  /\ export = ExportIdle
  /\ quota = [capture |-> 0, meta |-> FALSE]

WorkerInit ==
  /\ fn = "none"
  /\ arg = [k |-> "none"]
  /\ ret = Undefined
  /\ storage \in InitialStores
  /\ handlers = <<>>
  /\ export = ExportIdle
  /\ quota = [capture |-> MaxCaptures, meta |-> TRUE]
  /\ PagesIdle

\* CONVERSATION_CAPTURED (lines 6-8): handleCapture runs to its first await,
\* the set of lines 40-48 issued, and the listener responds
ConversationCaptured ==
  \E id \in CapturedIds, at \in CaptureTimes, tabId \in TabIds :
    /\ quota.capture > 0
    /\ quota' = [quota EXCEPT !.capture = @ - 1]
    /\ storage' = StorageSet(storage, "conv_" \o id, CaptureEntry(id, at))
    /\ handlers' = Append(handlers, [pc |-> IF tabId # 0 THEN "tab" ELSE "evict",
                                     conversationId |-> id, tabId |-> tabId,
                                     toRemove |-> {}])
    /\ UNCHANGED <<export, formatterVars, pageVars>>

\* handleCapture resumes after the first set and records the tab (lines 51-55)
StoreTab ==
  \E h \in DOMAIN handlers :
    /\ handlers[h].pc = "tab"
    /\ storage' = StorageSet(storage, "tab_" \o ToString(handlers[h].tabId),
                             handlers[h].conversationId)
    /\ handlers' = [handlers EXCEPT ![h].pc = "evict"]
    /\ UNCHANGED <<export, quota, formatterVars, pageVars>>

\* A handler with the h-th one gone: its call has returned
Returned(h) == SubSeq(handlers, 1, h - 1) \o SubSeq(handlers, h + 1, Len(handlers))

\* evictOldCaptures reads the whole storage (line 70); lines 71-78 run when the
\* snapshot arrives, and the call returns at line 76 when nothing is to go
EvictGet ==
  \E h \in DOMAIN handlers :
    /\ handlers[h].pc = "evict"
    /\ \E toRemove \in toRemoveOf(storage) :
         handlers' = IF toRemove = {} THEN Returned(h)
                     ELSE [handlers EXCEPT ![h] = [@ EXCEPT !.pc = "remove",
                                                            !.toRemove = toRemove]]
    /\ UNCHANGED <<storage, export, quota, formatterVars, pageVars>>

\* evictOldCaptures removes the keys it computed (lines 80-81) and returns
EvictRemove ==
  \E h \in DOMAIN handlers :
    /\ handlers[h].pc = "remove"
    /\ storage' = StorageRemove(storage, keysToRemove(handlers[h].toRemove))
    /\ handlers' = Returned(h)
    /\ UNCHANGED <<export, quota, formatterVars, pageVars>>

\* PAGE_META (lines 11-13, 86-95)
PageMeta ==
  \E id \in CapturedIds :
    /\ quota.meta
    /\ quota' = [quota EXCEPT !.meta = FALSE]
    /\ storage' = StorageSet(storage, "meta_" \o id, [conversationId |-> id])
    /\ UNCHANGED <<handlers, export, formatterVars, pageVars>>

WorkerNext ==
  \/ ConversationCaptured
  \/ StoreTab
  \/ EvictGet
  \/ EvictRemove
  \/ PageMeta

WorkerSpec == WorkerInit /\ [][WorkerNext]_vars

(***************************************************************************)
(* TRIGGER_EXPORT (lines 25-27, 116-151): one request of the popup.        *)
(* export.pc is the position of triggerExport: "query" awaits tabs.query,  *)
(* "send" awaits tabs.sendMessage, "poll" waits for the next timer to call *)
(* check, "done" has called sendResponse.  export.responses is what        *)
(* sendResponse was called with, export.fetchError whether a FETCH_ERROR   *)
(* of the page was logged (lines 16-19).                                   *)
(***************************************************************************)
\* Conversations the popup asks for: the oldest of the store, which is absent
\* from the empty one, and none
RequestedIds == {"a", ""}

NoActiveTab == [ok |-> FALSE, error |-> "No active tab"]
SendFailed == [ok |-> FALSE, error |-> "Could not establish connection"]
TimedOut == [ok |-> FALSE, error |-> "Timeout waiting for data (30s)"]

Respond(r) == [export EXCEPT !.pc = "done", !.responses = Append(@, r)]

\* attempts >= maxAttempts in place of line 139
attemptsExceeded_AtLimit(attempts) == attempts >= maxAttempts

\* attempts > maxAttempts (line 139)
attemptsExceeded(attempts) == attempts > maxAttempts

\* The storage of an export: empty or full, and one capture still to come
ExportInit ==
  /\ fn = "none" /\ arg = [k |-> "none"] /\ ret = Undefined
  /\ storage \in {StoreOf(0), StoreOf(keepCount)}
  /\ handlers = <<>>
  /\ export = ExportIdle
  /\ quota = [capture |-> MaxCaptures - 1, meta |-> FALSE]
  /\ PagesIdle

\* The listener starts triggerExport (line 26), which calls tabs.query
TriggerExport ==
  \E conversationId \in RequestedIds :
    /\ export.pc = "idle"
    /\ export' = [export EXCEPT !.pc = "query", !.conversationId = conversationId]
    /\ UNCHANGED <<storage, handlers, quota, formatterVars, pageVars>>

\* tabs.query settles (lines 119-123)
TabsQuery ==
  /\ export.pc = "query"
  /\ \E tab \in TabIds :
       export' = IF tab = 0 THEN Respond(NoActiveTab) ELSE [export EXCEPT !.pc = "send"]
  /\ UNCHANGED <<storage, handlers, quota, formatterVars, pageVars>>

\* tabs.sendMessage settles (lines 125-128): rejected, the catch of lines
\* 148-150 answers; fulfilled, the first check is scheduled (lines 132-146)
SendMessage ==
  /\ export.pc = "send"
  /\ \E delivered \in BOOLEAN :
       export' = IF delivered THEN [export EXCEPT !.pc = "poll", !.attempts = 0]
                               ELSE Respond(SendFailed)
  /\ UNCHANGED <<storage, handlers, quota, formatterVars, pageVars>>

\* A timer calls check (lines 135-145)
Check ==
  /\ export.pc = "poll"
  /\ LET attempts == export.attempts + 1
         status == getStatus(storage, export.conversationId)
     IN export' = IF status.captured
                    THEN [Respond([ok |-> TRUE, status |-> status]) EXCEPT !.attempts = attempts]
                  ELSE IF attemptsExceeded(attempts)
                    THEN [Respond(TimedOut) EXCEPT !.attempts = attempts]
                  ELSE [export EXCEPT !.attempts = attempts]
  /\ UNCHANGED <<storage, handlers, quota, formatterVars, pageVars>>

\* FETCH_ERROR of the page that was asked to fetch (lines 16-19)
FetchError ==
  /\ export.pc = "poll"
  /\ ~export.fetchError
  /\ export' = [export EXCEPT !.fetchError = TRUE]
  /\ UNCHANGED <<storage, handlers, quota, formatterVars, pageVars>>

ExportNext ==
  \/ TriggerExport
  \/ TabsQuery
  \/ SendMessage
  \/ Check
  \/ FetchError
  \/ ConversationCaptured
  \/ StoreTab
  \/ EvictGet
  \/ EvictRemove

\* Promises of the browser settle and timers fire
ExportSpec ==
  /\ ExportInit
  /\ [][ExportNext]_vars
  /\ WF_vars(TabsQuery) /\ WF_vars(SendMessage) /\ WF_vars(Check)

(***************************************************************************)
(* The popup's copy button (popup.js, src/unnamed/part_000 lines 225-288). *)
(* popup.pc is the position of the click handler: "status" awaits the      *)
(* GET_STATUS of ensureCapture, "export" its TRIGGER_EXPORT, "data" the    *)
(* GET_CAPTURE_DATA sent once ensureCapture has returned true; "failed" is *)
(* ensureCapture returning false, "done" the handler past line 268 with    *)
(* the response in popup.result.                                           *)
(***************************************************************************)
\* getCaptureData(conversationId) (background.js lines 153-169), read off the
\* storage st
getCaptureData(st, conversationId) ==
  IF ("conv_" \o conversationId) \notin DOMAIN st
  THEN [ok |-> FALSE, error |-> "No capture found"]
  ELSE [ok |-> TRUE, data |-> st["conv_" \o conversationId], conversationId |-> conversationId]

\* pageInfo.conversationId: the oldest conversation of the store
PopupConversationIds == {"a"}

PopupInit == ExportInit

\* The click (lines 251-258) and the GET_STATUS of ensureCapture (line 227)
Click ==
  \E conversationId \in PopupConversationIds :
    /\ popup.pc = "idle"
    /\ popup' = [popup EXCEPT !.pc = "status", !.conversationId = conversationId]
    /\ UNCHANGED <<page, workerVars, formatterVars>>

\* The worker answers GET_STATUS (background.js lines 21-23): captured,
\* ensureCapture returns true (line 232) and GET_CAPTURE_DATA is sent (line
\* 265); else TRIGGER_EXPORT is sent (line 237) and triggerExport starts
EnsureStatus ==
  /\ popup.pc = "status"
  /\ IF getStatus(storage, popup.conversationId).captured
     THEN popup' = [popup EXCEPT !.pc = "data"] /\ UNCHANGED export
     ELSE /\ popup' = [popup EXCEPT !.pc = "export"]
          /\ export' = [export EXCEPT !.pc = "query", !.conversationId = popup.conversationId]
  /\ UNCHANGED <<page, storage, handlers, quota, formatterVars>>

\* The response to TRIGGER_EXPORT arrives (lines 242-248)
EnsureExported ==
  /\ popup.pc = "export"
  /\ export.pc = "done"
  /\ popup' = [popup EXCEPT !.pc = IF export.responses[1].ok THEN "data" ELSE "failed"]
  /\ UNCHANGED <<page, workerVars, formatterVars>>

\* The worker answers GET_CAPTURE_DATA (background.js lines 29-31)
GetCaptureData ==
  /\ popup.pc = "data"
  /\ popup' = [popup EXCEPT !.pc = "done",
                            !.result = <<getCaptureData(storage, popup.conversationId)>>]
  /\ UNCHANGED <<page, workerVars, formatterVars>>

PopupNext ==
  \/ Click
  \/ EnsureStatus
  \/ EnsureExported
  \/ GetCaptureData
  \/ TabsQuery
  \/ SendMessage
  \/ Check
  \/ FetchError
  \/ ConversationCaptured
  \/ StoreTab
  \/ EvictGet
  \/ EvictRemove

PopupSpec == PopupInit /\ [][PopupNext]_vars

(***************************************************************************)
(* interceptor.js: the script in the page.  page.pc is the position of the *)
(* running call: of the window.fetch wrapper (lines 14-37) or of the       *)
(* message listener (lines 40-79).  page.posted lists the messages given   *)
(* to window.postMessage, page.returned is what the wrapper resolved to.   *)
(***************************************************************************)
\* The first index from p on at which sub occurs in s, 0 if none
RECURSIVE IndexFrom(_, _, _)
IndexFrom(s, sub, p) ==
  IF p + Len(sub) - 1 > Len(s) THEN 0
  ELSE IF SubSeq(s, p, p + Len(sub) - 1) = sub THEN p
  ELSE IndexFrom(s, sub, p + 1)

\* str.includes(sub)
Includes(s, sub) == IndexFrom(s, sub, 1) > 0

\* The end of the longest run of characters of set from p on (p - 1 if none)
RECURSIVE RunEnd(_, _, _)
RunEnd(s, set, p) ==
  IF p > Len(s) \/ SubSeq(s, p, p) \notin set THEN p - 1 ELSE RunEnd(s, set, p + 1)

HexChars == {"0", "1", "2", "3", "4", "5", "6", "7", "8", "9",
             "a", "b", "c", "d", "e", "f", "-"}

\* [^/]+(\?|$) matched at p: a run without "/" that can stop at the end of
\* the string or before a "?"
SegmentEnds(s, p) ==
  \E k \in p..Len(s) :
    /\ \A i \in p..k : SubSeq(s, i, i) # "/"
    /\ k = Len(s) \/ SubSeq(s, k + 1, k + 1) = "?"

\* [^/]+\/chat_conversations\/[^/]+(\?|$) matched at p
OrgAndConversation(s, p) ==
  LET q == IndexFrom(s, "/chat_conversations/", p + 1)
  IN /\ q > 0
     /\ \A i \in p..(q - 1) : SubSeq(s, i, i) # "/"
     /\ SegmentEnds(s, q + 20)

\* INTERCEPT_PATTERNS.some((p) => p.test(url)) (lines 7-9, 18)
RECURSIVE InterceptsFrom(_, _)
InterceptsFrom(url, p) ==
  LET q == IndexFrom(url, "/api/organizations/", p)
  IN q > 0 /\ (OrgAndConversation(url, q + 19) \/ InterceptsFrom(url, q + 1))

Intercepts(url) == InterceptsFrom(url, 1)

\* url.match(/chat_conversations\/([0-9a-f-]+)/) (line 170): the captured
\* group, "" where the pattern does not match
RECURSIVE convMatchFrom(_, _)
convMatchFrom(url, p) ==
  LET q == IndexFrom(url, "chat_conversations/", p)
  IN IF q = 0 THEN ""
     ELSE IF RunEnd(url, HexChars, q + 19) >= q + 19
       THEN SubSeq(url, q + 19, RunEnd(url, HexChars, q + 19))
     ELSE convMatchFrom(url, q + 1)

\* The message postCapture posts (lines 169-189)
postCapture(url, data) ==
  [type |-> "FLOAT_EXPORT_CAPTURED",
   conversationId |-> IF convMatchFrom(url, 1) # "" THEN Str(convMatchFrom(url, 1))
                      ELSE Or(Get(data, "uuid"), Str("unknown")),
   url |-> url]

\* The error message of lines 49-52, 60-63 and 74-77
FetchErrorMessage == [type |-> "FLOAT_EXPORT_FETCH_ERROR", conversationId |-> Null, url |-> ""]

\* typeof args[0] === "string" ? args[0] : args[0]?.url || "" (line 16)
urlOf(input) ==
  IF IsStr(input) THEN input.s
  ELSE IF IsNullish(input) THEN ""
  ELSE IF IsStr(Or(Get(input, "url"), Str(""))) THEN Or(Get(input, "url"), Str("")).s
  ELSE ""

\* The on-demand URL (line 56)
requestUrl(orgId, conversationId) ==
  "/api/organizations/" \o orgId \o "/chat_conversations/" \o conversationId
    \o "?tree=True&rendering_mode=messages&render_all_tools=true"

\* embedFiles (lines 81-132) as far as its control flow goes: the number of
\* file fetches it awaits, and whether it then throws outside the try of
\* lines 94-125.
Walk(fetches, throws) == [fetches |-> fetches, throws |-> throws]

\* One file (lines 91-122)
fileWalk(file) ==
  IF IsNullish(file) THEN Walk(0, TRUE)
  ELSE IF ~Truthy(Or(Get(file, "file_uuid"), Get(file, "uuid"))) THEN Walk(0, FALSE)
  ELSE IF Get(file, "file_kind") \in {Str("image"), Str("text"), Str("document")}
    THEN Walk(1, FALSE)
  ELSE Walk(0, FALSE)

\* for (const file of files) (line 90)
RECURSIVE filesWalk(_, _)
filesWalk(files, i) ==
  IF i > Len(files) THEN Walk(0, FALSE)
  ELSE IF fileWalk(files[i]).throws THEN Walk(0, TRUE)
  ELSE Walk(fileWalk(files[i]).fetches + filesWalk(files, i + 1).fetches,
            filesWalk(files, i + 1).throws)

\* One message (lines 87-90)
messageWalk(msg) ==
  IF IsNullish(msg) THEN Walk(0, TRUE)
  ELSE IF ~Truthy(Length(Or(Or(Get(msg, "files_v2"), Get(msg, "files")), Arr(<<>>))))
    THEN Walk(0, FALSE)
  ELSE IF ~Iterate(Or(Get(msg, "files_v2"), Get(msg, "files"))).ok THEN Walk(0, TRUE)
  ELSE filesWalk(Iterate(Or(Get(msg, "files_v2"), Get(msg, "files"))).items, 1)

\* for (const msg of messages) (line 86)
RECURSIVE messagesWalk(_, _)
messagesWalk(messages, i) ==
  IF i > Len(messages) THEN Walk(0, FALSE)
  ELSE IF messageWalk(messages[i]).throws THEN messageWalk(messages[i])
  ELSE Walk(messageWalk(messages[i]).fetches + messagesWalk(messages, i + 1).fetches,
            messagesWalk(messages, i + 1).throws)

embedFiles(data) ==
  IF IsNullish(data) THEN Walk(0, TRUE)
  ELSE IF ~Iterate(Or(Get(data, "chat_messages"), Arr(<<>>))).ok THEN Walk(0, TRUE)
  ELSE messagesWalk(Iterate(Or(Get(data, "chat_messages"), Arr(<<>>))).items, 1)

\* data.chat_messages (line 28) read without a catch: throws on null
hasChatMessages(data) == ~IsNullish(data) /\ Truthy(Get(data, "chat_messages"))

\* Every JSON body captured, whatever it holds
shouldCapture_AnyJson(contentType, data) ==
  Includes(Or(contentType, Str("")).s, "application/json") /\ ~Throws(data)

\* contentType.includes("application/json") && data.chat_messages
\* (lines 24-28), data being what cloned.json() gave
shouldCapture(contentType, data) ==
  /\ Includes(Or(contentType, Str("")).s, "application/json")
  /\ ~Throws(data)
  /\ hasChatMessages(data)

(***************************************************************************)
(* Inputs of the page script                                               *)
(***************************************************************************)
FileOf(kind) == Obj(<<<<"file_uuid", Str("u1")>>, <<"file_kind", Str(kind)>>>>)
MessageOf(key, files) == Obj(<<<<"uuid", Str("m1")>>, <<key, Arr(files)>>>>)
DataOf(messages) == Obj(<<<<"uuid", Str("c1")>>, <<"chat_messages", messages>>>>)

\* What resp.json() gives: a rejection for a body that is not JSON, else the
\* parsed value
Bodies ==
  { TypeError,
    Null,
    Obj(<<<<"error", Str("not found")>>>>),
    DataOf(Arr(<<>>)),
    DataOf(Num(5)),
    DataOf(Arr(<<Null>>)),
    DataOf(Arr(<<MessageOf("files", <<>>)>>)),
    DataOf(Arr(<<MessageOf("files_v2", <<FileOf("image"), FileOf("blob")>>)>>)),
    DataOf(Arr(<<MessageOf("files", <<Obj(<<<<"file_kind", Str("image")>>>>), FileOf("document")>>)>>)),
    DataOf(Arr(<<MessageOf("files_v2", <<FileOf("text"), Null>>)>>)) }

\* The responses of the original fetch; noClone is a response whose clone()
\* throws, clone marks the copy clone() makes
Responses ==
  [t : {"response"}, ok : BOOLEAN, contentType : {Null, Str("text/html"), Str("application/json; charset=utf-8")},
   body : Bodies, noClone : BOOLEAN, clone : {FALSE}]

\* First arguments the page calls fetch with: strings, Request objects, a URL
FetchInputs ==
  { Str("/api/organizations/o1/chat_conversations/c1?tree=True"),
    Str("https://claude.ai/api/organizations/o1/chat_conversations/xyz"),
    Str("/api/organizations/o1/chat_conversations/c1/title"),
    Str("/api/organizations/o1/chat_conversations"),
    Str("/api/account"),
    Obj(<<<<"url", Str("/api/organizations/o1/chat_conversations/c2")>>>>),
    Obj(<<<<"href", Str("/api/organizations/o1/chat_conversations/c1")>>>>),
    Undefined }

\* extractOrgId() (lines 148-167): an id or null
OrgIds == {Null, Str("o1")}
PageConversationIds == {"c1"}

Post(pg, message) == [pg EXCEPT !.posted = Append(@, message)]

\* The listener returns, or the wrapper resolves to value
Finish(pg, value) == [pg EXCEPT !.pc = "done", !.returned = value]

PageInit ==
  /\ fn = "none" /\ arg = [k |-> "none"] /\ ret = Undefined
  /\ WorkerIdle
  /\ PagesIdle

\* The page calls window.fetch: the wrapper awaits the original fetch
\* (line 15)
WindowFetch ==
  \E input \in FetchInputs :
    /\ page.pc = "idle"
    /\ page' = [page EXCEPT !.pc = "fetch", !.call = "wrapper", !.url = urlOf(input)]
    /\ UNCHANGED <<popup, workerVars, formatterVars>>

\* The original fetch settles (lines 15-27): a rejection rejects the call,
\* a response is returned at once unless it is inspected
WrapperFetched ==
  /\ page.pc = "fetch" /\ page.call = "wrapper"
  /\ \E resp \in Responses \cup {TypeError} :
       page' = IF Throws(resp) THEN Finish([page EXCEPT !.resp = resp], TypeError)
               ELSE IF ~Intercepts(page.url) THEN Finish([page EXCEPT !.resp = resp], resp)
               ELSE IF resp.noClone THEN Finish([page EXCEPT !.resp = resp], resp)
               ELSE IF ~Includes(Or(resp.contentType, Str("")).s, "application/json")
                 THEN Finish([page EXCEPT !.resp = resp], resp)
               ELSE [page EXCEPT !.pc = "json", !.resp = resp]
  /\ UNCHANGED <<popup, workerVars, formatterVars>>

\* cloned.json() settles (lines 27-36)
WrapperParsed ==
  /\ page.pc = "json" /\ page.call = "wrapper"
  /\ page' = IF shouldCapture(page.resp.contentType, page.resp.body)
               THEN Finish(Post(page, postCapture(page.url, page.resp.body)), page.resp)
             ELSE Finish(page, page.resp)
  /\ UNCHANGED <<popup, workerVars, formatterVars>>

\* FLOAT_EXPORT_FETCH_REQUEST (lines 40-57)
FetchRequest ==
  \E orgId \in OrgIds, conversationId \in PageConversationIds :
    /\ page.pc = "idle"
    /\ page' = IF ~Truthy(orgId)
                 THEN Finish(Post([page EXCEPT !.call = "request"], FetchErrorMessage), Undefined)
               ELSE [page EXCEPT !.pc = "fetch", !.call = "request",
                                 !.url = requestUrl(orgId.s, conversationId)]
    /\ UNCHANGED <<popup, workerVars, formatterVars>>

\* originalFetch(url) settles (lines 57-67)
RequestFetched ==
  /\ page.pc = "fetch" /\ page.call = "request"
  /\ \E resp \in Responses \cup {TypeError} :
       page' = IF Throws(resp) \/ ~resp.ok
                 THEN Finish(Post([page EXCEPT !.resp = resp], FetchErrorMessage), Undefined)
               ELSE [page EXCEPT !.pc = "json", !.resp = resp]
  /\ UNCHANGED <<popup, workerVars, formatterVars>>

\* The end of the listener once embedFiles is through (lines 70-78)
Outcome(pg, throws) ==
  IF throws THEN Finish(Post(pg, FetchErrorMessage), Undefined)
  ELSE Finish(Post(pg, postCapture(pg.url, pg.resp.body)), Undefined)

\* resp.json() settles and embedFiles runs to its first await (lines 67-98)
RequestParsed ==
  /\ page.pc = "json" /\ page.call = "request"
  /\ page' = IF Throws(page.resp.body) THEN Finish(Post(page, FetchErrorMessage), Undefined)
             ELSE IF embedFiles(page.resp.body).fetches = 0
               THEN Outcome(page, embedFiles(page.resp.body).throws)
             ELSE [page EXCEPT !.pc = "embed",
                               !.remaining = embedFiles(page.resp.body).fetches,
                               !.throws = embedFiles(page.resp.body).throws]
  /\ UNCHANGED <<popup, workerVars, formatterVars>>

\* The fetch of one file settles (lines 98-125): embedded, not ok, or failed
\* and warned about
EmbedFile ==
  /\ page.pc = "embed"
  /\ \E result \in {"embedded", "not ok", "failed"} :
       page' = LET pg == [page EXCEPT !.remaining = @ - 1,
                                      !.warned = @ \/ result = "failed"]
               IN IF pg.remaining = 0 THEN Outcome(pg, pg.throws) ELSE pg
  /\ UNCHANGED <<popup, workerVars, formatterVars>>

PageNext ==
  \/ WindowFetch
  \/ WrapperFetched
  \/ WrapperParsed
  \/ FetchRequest
  \/ RequestFetched
  \/ RequestParsed
  \/ EmbedFile

PageSpec == PageInit /\ [][PageNext]_vars

(***************************************************************************)
(* The state machine: an input is drawn, then one function that accepts it *)
(* is applied to it and its result (a value or an exception) recorded.     *)
(***************************************************************************)
Init ==
  /\ fn = "none"
  /\ arg \in Inputs
  /\ ret = Undefined
  /\ WorkerIdle
  /\ PagesIdle

Truncate ==
  /\ fn = "none"
  /\ arg.k = "truncate"
  /\ fn' = "truncate"
  /\ ret' = Str(truncate(arg.str, arg.max))
  /\ UNCHANGED <<arg, workerVars, pageVars>>

UnwrapToolOutput ==
  /\ fn = "none"
  /\ arg.k = "body"
  /\ fn' = "unwrapToolOutput"
  /\ ret' = unwrapToolOutput(Str(arg.body))
  /\ UNCHANGED <<arg, workerVars, pageVars>>

FormatToolResult ==
  /\ fn = "none"
  /\ arg.k = "result"
  /\ fn' = "formatToolResult"
  /\ ret' = formatToolResult(arg.block)
  /\ UNCHANGED <<arg, workerVars, pageVars>>

FormatToolUse ==
  /\ fn = "none"
  /\ arg.k = "use"
  /\ fn' = "formatToolUse"
  /\ ret' = formatToolUse(arg.block)
  /\ UNCHANGED <<arg, workerVars, pageVars>>

FormatConversation ==
  /\ fn = "none"
  /\ arg.k = "conv"
  /\ fn' = "formatConversation"
  /\ ret' = formatConversation(arg.data, arg.meta, arg.now)
  /\ UNCHANGED <<arg, workerVars, pageVars>>

FormatForOutliner ==
  /\ fn = "none"
  /\ arg.k = "conv"
  /\ fn' = "formatForOutliner"
  /\ ret' = formatForOutliner(arg.data, arg.meta, arg.now)
  /\ UNCHANGED <<arg, workerVars, pageVars>>

ExtractToolResultText ==
  /\ fn = "none"
  /\ arg.k = "result"
  /\ fn' = "extractToolResultText"
  /\ ret' = extractToolResultText(Get(arg.block, "content"))
  /\ UNCHANGED <<arg, workerVars, pageVars>>

FormatThinking ==
  /\ fn = "none"
  /\ arg.k = "thinking"
  /\ fn' = "formatThinking"
  /\ ret' = formatThinking(arg.block)
  /\ UNCHANGED <<arg, workerVars, pageVars>>

OutlinerThinking ==
  /\ fn = "none"
  /\ arg.k = "thinking"
  /\ fn' = "outlinerThinking"
  /\ ret' = outlinerThinking(arg.block)
  /\ UNCHANGED <<arg, workerVars, pageVars>>

JsonToYaml ==
  /\ fn = "none"
  /\ arg.k = "yaml"
  /\ fn' = "jsonToYaml"
  /\ ret' = jsonToYaml(arg.v, 0)
  /\ UNCHANGED <<arg, workerVars, pageVars>>

Next ==
  \/ ExtractToolResultText
  \/ FormatThinking
  \/ OutlinerThinking
  \/ JsonToYaml
  \/ Truncate
  \/ UnwrapToolOutput
  \/ FormatToolResult
  \/ FormatToolUse
  \/ FormatConversation
  \/ FormatForOutliner

Spec == Init /\ [][Next]_vars

(***************************************************************************)
(* Properties                                                              *)
(***************************************************************************)
Formatted == fn \in {"formatConversation", "formatForOutliner"}

\* The messages of the conversation a formatter was applied to
Messages == IF IsArr(messagesOf(arg.data)) THEN messagesOf(arg.data).a ELSE <<>>

\* The indices of the lines of ls that satisfy Test, in order
LinesWhere(ls, Test(_)) == SelectSeq([i \in 1..Len(ls) |-> i], LAMBDA i : Test(ls[i]))

IsLine(text, l) == \E i \in 1..Len(Split(text)) : Split(text)[i] = l

\* C1: formatConversation and formatForOutliner return a string and never
\* raise, whatever the types of the conversation's fields.
C1_NeverRaises == Formatted => IsStr(ret)

\* C2: a conversation with zero messages (chat_messages empty or absent, or
\* the conversation null or undefined) is rendered as the sentinel comment by
\* formatConversation and as "export:: empty conversation" by
\* formatForOutliner, and nothing else.
C2_ZeroMessages ==
  \/ IsNullish(arg.data)
  \/ Get(arg.data, "chat_messages") \in {Undefined, Arr(<<>>)}

C2_EmptySentinel ==
  /\ fn = "formatConversation" /\ C2_ZeroMessages
       => ret = Str("<!-- No messages found in capture -->")
  /\ fn = "formatForOutliner" /\ C2_ZeroMessages
       => ret = Str("export:: empty conversation")

C2_Witness ==
  /\ fn = "formatConversation"
  /\ arg.data = Conversation(Arr(<<>>))
  /\ ret = Str("<!-- No messages found in capture -->")

\* C3: for N >= 1 messages both formatters emit exactly N per-message
\* sections, the i-th section being that of the i-th message, and the header
\* gives the count N.
C3_FirstLine(msg) == Split(Get(msg, "content").s)[1]

C3_FlatSections ==
  LET ls == Split(ret.s)
      heads == LinesWhere(ls, LAMBDA l : l \in {"## Human", "## Assistant"})
  IN /\ Len(heads) = Len(Messages)
     /\ IsLine(ret.s, "<!-- messages: " \o ToString(Len(Messages)) \o " -->")
     /\ \A i \in 1..Len(Messages) :
          IsStr(Get(Messages[i], "content"))
            => ls[heads[i] + 2] = C3_FirstLine(Messages[i])

C3_OutlinerSections ==
  LET ls == Split(ret.s)
      heads == LinesWhere(ls, LAMBDA l : StartsWith(l, "user:: ") \/ l = "response::")
  IN /\ Len(heads) = Len(Messages)
     /\ IsLine(ret.s, "  messages:: " \o ToString(Len(Messages)))
     /\ \A i \in 1..Len(Messages) :
          IsStr(Get(Messages[i], "content"))
            => \/ ls[heads[i]] = "user:: " \o C3_FirstLine(Messages[i])
               \/ /\ ls[heads[i]] = "response::"
                  /\ ls[heads[i] + 1] = "  " \o C3_FirstLine(Messages[i])

C3_SectionsInOrder ==
  Formatted /\ Len(Messages) >= 1
    => /\ IsStr(ret)
       /\ fn = "formatConversation" => C3_FlatSections
       /\ fn = "formatForOutliner" => C3_OutlinerSections

\* C4: formatToolResult renders the unwrapped body in a YAML-tagged fence
\* holding the structured-data rendering when the trimmed body starts with {
\* or [ and parses as JSON, in a JSON-tagged fence holding the raw body when
\* it starts so and does not parse, otherwise in a plain fence when it is a
\* single line under 200 characters or the error flag is set, and otherwise
\* unfenced.
C4_Body == unwrapContent(resultBody(Get(arg.block, "content")))

C4_Rendering(body, isError) ==
  LET trimmed == Trim(body)
      r == JSONParse(trimmed)
      yaml == jsonToYaml(r.v, 0)
  IN IF StartsWith(trimmed, "{") \/ StartsWith(trimmed, "[")
     THEN IF r.ok
          THEN Fence \o "yaml\n" \o (IF IsStr(yaml) THEN yaml.s ELSE "") \o "\n" \o Fence
          ELSE Fence \o "json\n" \o body \o "\n" \o Fence
     ELSE IF (~HasNewline(trimmed) /\ Len(trimmed) < 200) \/ isError
          THEN Fence \o "\n" \o body \o "\n" \o Fence
     ELSE body

C4_ResultRendering ==
  fn = "formatToolResult" /\ IsStr(C4_Body)
    => ret = Str("### " \o resultPrefix(arg.block) \o "\n\n"
                 \o C4_Rendering(C4_Body.s, Truthy(Get(arg.block, "is_error"))))

\* C5: for an object with stdout and returncode fields and a non-empty
\* trimmed stdout or stderr, unwrapToolOutput returns the trimmed stdout (if
\* non-empty), then the **stderr:** block (if stderr is non-empty), then the
\* exit annotation exactly when returncode is not 0.
C5_Text(v) == IF IsStr(v) THEN Trim(v.s) ELSE ""

C5_Envelope ==
  /\ fn = "unwrapToolOutput"
  /\ HasKey(arg.obj, "stdout") /\ HasKey(arg.obj, "returncode")
  /\ Get(arg.obj, "stdout").t \in {"string", "null"}
  /\ Get(arg.obj, "stderr").t \in {"string", "null", "undefined"}

C5_Expected ==
  LET out == C5_Text(Get(arg.obj, "stdout"))
      err == C5_Text(Get(arg.obj, "stderr"))
      code == Get(arg.obj, "returncode")
  IN out
     \o (IF out # "" /\ err # "" THEN "\n\n" ELSE "")
     \o (IF err # "" THEN "**stderr:**\n" \o err ELSE "")
     \o (IF code # Num(0) THEN "\n\n_ (exit " \o ToString(code.n) \o ")_" ELSE "")

C6_StringKeys ==
  {k \in {"output", "result", "text", "content", "message", "data"} : IsStr(Get(arg.obj, k))}

C6_SingleValue ==
  fn = "unwrapToolOutput" /\ IsObj(arg.obj)
    /\ ~(HasKey(arg.obj, "stdout") /\ HasKey(arg.obj, "returncode"))
    => IF KeyCount(arg.obj) <= 3 /\ Cardinality(C6_StringKeys) = 1
       THEN \A k \in C6_StringKeys : ret = Get(arg.obj, k)
       ELSE ret = Str(arg.body)

\* C7: for an object with stdout and returncode fields whose stdout and
\* stderr are both empty after trimming, unwrapToolOutput returns the input
\* unchanged, whatever other keys the object carries.
C7_EmptyEnvelope ==
  C5_Envelope
    /\ C5_Text(Get(arg.obj, "stdout")) = "" /\ C5_Text(Get(arg.obj, "stderr")) = ""
    => ret = Str(arg.body)

\* C8: in the flat rendering of a tool_use block a field is a rich field, under
\* its own **<field>:** label with its raw value, exactly when its name is in
\* the allow-list and its value is a string with a newline; every other field
\* is in the one fenced JSON metadata block, which is cut at the toolUseMeta
\* limit and left out when no field is metadata.
C8_AllowList ==
  {"content", "new_str", "old_str", "text", "body", "description", "message",
   "prompt", "code", "script", "markdown", "html", "new_string", "old_string",
   "file_text"}

C8_Rich(e) == e[1] \in C8_AllowList /\ IsStr(e[2]) /\ HasNewline(e[2].s)

C8_Fields == Entries(Or(Get(arg.block, "input"), Obj(<<>>)))

C8_MetaBlock ==
  LET meta == SelectSeq(C8_Fields, LAMBDA e : ~C8_Rich(e))
      json == Stringify(Obj(meta), "  ", "")
  IN IF meta = <<>> THEN ""
     ELSE "\n" \o Fence \o "json\n"
          \o (IF Len(json) > LimitToolUseMeta
              THEN SubSeq(json, 1, LimitToolUseMeta) \o "\n... (truncated)" ELSE json)
          \o "\n" \o Fence

C8_RichSections ==
  LET rich == SelectSeq(C8_Fields, LAMBDA e : C8_Rich(e))
  IN Join([i \in 1..Len(rich) |-> "\n\n**" \o rich[i][1] \o ":**\n\n" \o rich[i][2].s], "")

C8_ToolUseSections ==
  fn = "formatToolUse"
    => ret = Str("### Tool Use: " \o BQ
                 \o JsString(Or(Get(arg.block, "name"), Str("unknown_tool"))) \o BQ
                 \o "\n" \o C8_MetaBlock \o C8_RichSections)

C8_Witness ==
  /\ fn = "formatToolUse"
  /\ Get(arg.block, "input") = Obj(<< <<"file_path", Str("/tmp/x.py")>>,
                                      <<"content", Str("line1\nline2")>> >>)
  /\ ret = Str("### Tool Use: ^write^\n\n^^^json\n{\n  \"file_path\": \"/tmp/x.py\"\n}\n^^^"
               \o "\n\n**content:**\n\nline1\nline2")

\* C9 as stated: a string longer than the limit N > 0 becomes its first N
\* characters followed by "... (truncated)", N + 15 characters in all; with
\* limit 0 or a string of at most N characters it is returned unchanged.
C9_Original ==
  fn = "truncate"
    => IF arg.max > 0 /\ Len(arg.str) > arg.max
       THEN /\ ret = Str(SubSeq(arg.str, 1, arg.max) \o "... (truncated)")
            /\ Len(ret.s) = arg.max + Len("... (truncated)")
       ELSE ret = Str(arg.str)

\* C9 as amended: the suffix truncate appends starts with a line break: a
\* string longer than N > 0 becomes its first N characters followed by
\* "\n... (truncated)", N + 16 characters in all; with limit 0 or a string of
\* at most N characters it is returned unchanged.
C9_Truncate ==
  fn = "truncate"
    => IF arg.max > 0 /\ Len(arg.str) > arg.max
       THEN /\ ret = Str(SubSeq(arg.str, 1, arg.max) \o "\n... (truncated)")
            /\ Len(ret.s) = arg.max + 16
       ELSE ret = Str(arg.str)

C9_Witness ==
  /\ fn = "truncate"
  /\ arg.str = "ab\n"
  /\ arg.max = 2
  /\ ret = Str("ab\n... (truncated)")

\* C10: a block whose kind is none of text, tool_use, tool_result, thinking,
\* token_budget is never dropped, whoever sent the message: the flat formatter
\* emits the unknown-type comment and the fenced JSON dump, the outliner
\* formatter an "unknown:: <kind>" line.
C10_UnknownKept ==
  Formatted /\ Len(Messages) = 1 /\ IsObj(Messages[1]) /\ IsArr(Get(Messages[1], "content"))
    => \A b \in {Get(Messages[1], "content").a[i] :
                   i \in 1..Len(Get(Messages[1], "content").a)} :
         IsObj(b) /\ Get(b, "type") \notin {Str("text"), Str("tool_use"), Str("tool_result"),
                                           Str("thinking"), Str("token_budget")}
           => /\ IsStr(ret)
              /\ fn = "formatConversation"
                   => /\ IsLine(ret.s, "<!-- unknown block type: " \o JsString(Get(b, "type")) \o " -->")
                      /\ \E i \in 1..(Len(Split(ret.s)) - 1) :
                           /\ Split(ret.s)[i] = "<!-- unknown block type: "
                                                  \o JsString(Get(b, "type")) \o " -->"
                           /\ Split(ret.s)[i + 1] = Fence \o "json"
              /\ fn = "formatForOutliner"
                   => IsLine(ret.s, "  unknown:: " \o JsString(Get(b, "type")))

\* The single message of the conversation, when it is an object
OneMessage == Len(Messages) = 1 /\ IsObj(Messages[1])

CountLines(text, Test(_)) == Len(LinesWhere(Split(text), Test))

\* C11: both formatters classify the sender alike: human and user give a
\* human turn (## Human, user::), every other sender an assistant turn
\* (## Assistant, response::).
C11_HumanSender == Get(Messages[1], "sender") \in {Str("human"), Str("user")}

C11_SenderClass ==
  Formatted /\ OneMessage /\ IsStr(ret)
    => /\ fn = "formatConversation"
            => /\ IsLine(ret.s, "## Human") <=> C11_HumanSender
               /\ IsLine(ret.s, "## Assistant") <=> ~C11_HumanSender
       /\ fn = "formatForOutliner"
            => /\ CountLines(ret.s, LAMBDA l : StartsWith(l, "user:: ")) = 1 <=> C11_HumanSender
               /\ IsLine(ret.s, "response::") <=> ~C11_HumanSender

\* C12: for every tool_result content the outliner's normalization
\* (extractToolResultText) yields the same string as the flat formatter's
\* (the body before unwrapping): same text, same image marker, same JSON form
\* of other sub-blocks, joined by newlines.
C12_SameNormalization ==
  fn = "extractToolResultText" => ret = resultBody(Get(arg.block, "content"))

\* C13: a thinking block whose text is empty or absent produces no output in
\* either vocabulary, whatever its summaries and truncation flag: no
\* collapsible container in the flat format, no thinking:: line in the
\* outliner format.
C13_Empty(b) ==
  /\ IsObj(b)
  /\ Get(b, "type") = Str("thinking")
  /\ Get(b, "thinking") \in {Undefined, Str("")}

C13_NoOutput ==
  /\ fn \in {"formatThinking", "outlinerThinking"} /\ C13_Empty(arg.block) => ret = Null
  /\ Formatted /\ OneMessage /\ IsArr(Get(Messages[1], "content"))
       /\ (\E i \in 1..Len(Get(Messages[1], "content").a) :
             C13_Empty(Get(Messages[1], "content").a[i]))
       => /\ IsStr(ret)
          /\ CountLines(ret.s, LAMBDA l : StartsWith(l, "<details>")) = 0
          /\ CountLines(ret.s, LAMBDA l : StartsWith(l, "  thinking::")) = 0

C13_Witness ==
  /\ fn = "formatThinking"
  /\ Get(arg.block, "thinking") = Str("")
  /\ Get(arg.block, "summaries") # Undefined /\ Get(arg.block, "summaries") # Arr(<<>>)
  /\ Get(arg.block, "cut_off") = Bool(TRUE)
  /\ ret = Null

\* C14: for JSON scalars and short all-scalar arrays without multiline
\* strings, two distinct values never render to the same text.
C14_Values == YamlScalars \cup YamlArrays

C14_Unambiguous ==
  fn = "jsonToYaml" /\ arg.v \in C14_Values
    => \A w \in C14_Values : w # arg.v => jsonToYaml(w, 0) # ret

\* C15: a non-empty object is rendered one entry per key in insertion order,
\* and an entry whose value is a non-empty nested object or a block-style
\* array has its key alone on its line, the nested block starting on the
\* next line one indent level deeper.
C15_BlockArray(v) ==
  /\ IsArr(v)
  /\ v.a # <<>>
  /\ ~(/\ \A i \in 1..Len(v.a) : ~IsArr(v.a[i]) /\ ~IsObj(v.a[i])
       /\ Len(Stringify(v, "", "")) < 80)

C15_Separators(v) ==
  IF (IsObj(v) /\ v.o # <<>>) \/ C15_BlockArray(v) THEN {":\n"}
  ELSE IF v = Obj(<<>>) THEN {":\n", ": "}
  ELSE {": "}

C15_ObjectEntries ==
  fn = "jsonToYaml" /\ IsObj(arg.v) /\ arg.v.o # <<>>
    => /\ IsStr(ret)
       /\ \E sep \in [1..Len(arg.v.o) -> {":\n", ": "}] :
            /\ \A i \in 1..Len(arg.v.o) : sep[i] \in C15_Separators(arg.v.o[i][2])
            /\ ret.s = Join([i \in 1..Len(arg.v.o) |->
                               arg.v.o[i][1] \o sep[i] \o jsonToYaml(arg.v.o[i][2], 1).s],
                            "\n")

\* A metadata comment line
IsComment(l) ==
  /\ Len(l) >= 9
  /\ StartsWith(l, "<!-- ")
  /\ SubSeq(l, Len(l) - 3, Len(l)) = " -->"

\* C16 as stated: the flat output of a conversation with at least one message
\* begins with exactly four metadata comment lines, then the # title heading,
\* then the message sections.
C16_FourComments ==
  fn = "formatConversation" /\ Len(Messages) >= 1 /\ IsStr(ret)
    => LET ls == Split(ret.s)
       IN /\ \A i \in 1..4 : IsComment(ls[i])
          /\ ~IsComment(ls[5])
          /\ \E h \in 5..6 :
               /\ StartsWith(ls[h], "# ")
               /\ \A i \in 5..(h - 1) : ls[i] = ""
               /\ ls[h + 1] = ""
               /\ ls[h + 2] \in {"## Human", "## Assistant"}

\* C16 as amended: the flat output of a conversation with at least one message
\* begins with exactly five metadata comment lines (format version,
\* conversation id, export time, model, message count), then a blank line, the
\* # title heading, a blank line and the message sections.
C16_FiveComments ==
  fn = "formatConversation" /\ Len(Messages) >= 1 /\ IsStr(ret)
    => LET ls == Split(ret.s)
       IN /\ ls[1] = "<!-- float-export v0.1 -->"
          /\ StartsWith(ls[2], "<!-- conversation: ") /\ IsComment(ls[2])
          /\ StartsWith(ls[3], "<!-- exported: ") /\ IsComment(ls[3])
          /\ StartsWith(ls[4], "<!-- model: ") /\ IsComment(ls[4])
          /\ ls[5] = "<!-- messages: " \o ToString(Len(Messages)) \o " -->"
          /\ ls[6] = ""
          /\ StartsWith(ls[7], "# ")
          /\ ls[8] = ""
          /\ ls[9] \in {"## Human", "## Assistant"}

C16_Witness ==
  /\ fn = "formatConversation"
  /\ Len(Messages) = 2
  /\ arg.meta = Obj(<<>>)
  /\ IsStr(ret)
  /\ StartsWith(ret.s, "<!-- float-export v0.1 -->\n<!-- conversation: c-1 -->\n"
                       \o "<!-- exported: 2026-01-01T00:00:00.000Z -->\n"
                       \o "<!-- model: unknown -->\n<!-- messages: 2 -->\n\n# Title\n\n## ")

\* C17: in the flat output of N >= 1 messages the separator (blank line, ---
\* rule, blank line) occurs only between consecutive messages: N - 1
\* separators, and none after the last message.
C17_SeparatorsBetween ==
  fn = "formatConversation" /\ Len(Messages) >= 1 /\ IsStr(ret)
    => LET ls == Split(ret.s)
           last == CHOOSE i \in 1..Len(ls) : ls[i] # "" /\ \A j \in (i + 1)..Len(ls) : ls[j] = ""
       IN /\ CountLines(ret.s, LAMBDA l : l = "---") = Len(Messages) - 1
          /\ ls[last] # "---"

(***************************************************************************)
(* Properties of the service worker                                        *)
(***************************************************************************)
CaptureKeys(st) == {k \in DOMAIN st : StartsWith(k, "conv_")}

\* The h-th handleCapture call takes the step from pc to the end of the call
Returns(h, pc) == handlers[h].pc = pc /\ handlers' = Returned(h)

\* C18: from a store of at most 5 captures, whenever no handleCapture call is
\* in progress the store holds at most 5 conv_ entries; a call that finds more
\* than 5 keeps the 5 with the greatest capturedAt, and removes the meta_ entry
\* of every capture it evicts.
C18_Quiescent == handlers = <<>> => Cardinality(CaptureKeys(storage)) <= 5

C18_KeepsNewest(h) ==
  handlers[h].pc = "evict" /\ Len(handlers') = Len(handlers) /\ handlers'[h].pc = "remove"
    => LET gone == {c.key : c \in handlers'[h].toRemove}
           kept == CaptureKeys(storage) \ gone
       IN /\ gone \subseteq CaptureKeys(storage)
          /\ Cardinality(kept) = 5
          /\ \A k \in kept, r \in gone : storage[k].capturedAt >= storage[r].capturedAt

C18_RemovesMeta(h) ==
  Returns(h, "remove")
    => \A c \in handlers[h].toRemove :
         /\ c.key \notin DOMAIN storage'
         /\ ("meta_" \o SubSeq(c.key, 6, Len(c.key))) \notin DOMAIN storage'

C18_KeepFive ==
  /\ C18_Quiescent
  /\ [][C18_Quiescent']_vars
  /\ [][\A h \in DOMAIN handlers : C18_KeepsNewest(h) /\ C18_RemovesMeta(h)]_vars

C18_Witness ==
  /\ handlers = <<>>
  /\ quota.capture = 0
  /\ CaptureKeys(storage) = {"conv_c", "conv_d", "conv_e", "conv_f", "conv_g"}
  /\ "meta_a" \notin DOMAIN storage
  /\ "meta_b" \notin DOMAIN storage

\* C20: a stored capture is removed only by an eviction that saw at least 5
\* other captures with a later capturedAt: an eviction computed from an earlier
\* snapshot never deletes a conv_ entry that was stored again, with a newer
\* capture, after the snapshot was read.
C20_NoLostCapture ==
  [][\A h \in DOMAIN handlers :
       Returns(h, "remove")
         => \A c \in handlers[h].toRemove :
              c.key \in DOMAIN storage => storage[c.key].capturedAt <= c.capturedAt]_vars

\* C19: a TRIGGER_EXPORT request is answered exactly once and its polling
\* ends: {ok:true, ...status} at the first poll that finds the capture of the
\* requested conversation stored, the timeout error at the poll after 240
\* polls found none (a FETCH_ERROR in between changes nothing), and an error
\* before any poll when no tab is active or the message to the tab fails.
C19_Answered ==
  /\ Len(export.responses) <= 1
  /\ export.pc = "done" <=> export.responses # <<>>
  /\ export.responses # <<>> =>
       LET r == export.responses[1]
       IN IF r.ok THEN export.attempts \in 1..(240 + 1)
          ELSE IF r = TimedOut THEN export.attempts = 240 + 1
          ELSE r \in {NoActiveTab, SendFailed} /\ export.attempts = 0

C19_Poll ==
  export.pc = "poll" /\ export'.attempts = export.attempts + 1
    => LET key == "conv_" \o export.conversationId
       IN IF key \in DOMAIN storage
            THEN /\ Len(export'.responses) = 1
                 /\ export'.responses[1].ok
                 /\ export'.responses[1].status.capturedAt = storage[key].capturedAt
          ELSE IF export.attempts >= 240
            THEN export'.responses = <<TimedOut>>
          ELSE export'.responses = <<>> /\ export'.pc = "poll"

C19_ExactlyOneResponse ==
  /\ C19_Answered
  /\ [][C19_Answered' /\ C19_Poll /\ (export.pc = "done" => export' = export)]_vars
  /\ (export.pc # "idle") ~> (export.pc = "done")

C19_Witness ==
  /\ export.responses = <<TimedOut>>
  /\ export.fetchError
  /\ export.attempts = 240 + 1
  /\ export.conversationId = "a"
  /\ "conv_f" \in DOMAIN storage

(***************************************************************************)
(* Properties of the page script                                           *)
(***************************************************************************)
Captured(message) == message.type = "FLOAT_EXPORT_CAPTURED"

\* C21: a FLOAT_EXPORT_FETCH_REQUEST ends with exactly one message posted:
\* FLOAT_EXPORT_CAPTURED when an org id was found, the response is ok and its
\* body parses, whatever happens to the files; FLOAT_EXPORT_FETCH_ERROR in
\* every other case.
C21_OneOutcome ==
  page.call = "request" =>
    /\ Len(page.posted) <= 1
    /\ page.pc = "done" =>
         /\ Len(page.posted) = 1
         /\ Captured(page.posted[1]) <=>
              /\ page.url # ""
              /\ page.resp.t = "response"
              /\ page.resp.ok
              /\ ~Throws(page.resp.body)

\* C22: the wrapped fetch resolves to the response of the original fetch
\* itself, matching URL or not, clone or parse failing or not; it posts at
\* most one FLOAT_EXPORT_CAPTURED, and only for a matching URL, a content type
\* containing application/json and a parsed body with chat_messages.
C22_Transparent ==
  page.call = "wrapper" =>
    /\ page.pc = "done" => page.returned = page.resp
    /\ Len(page.posted) <= 1
    /\ \A i \in DOMAIN page.posted :
         /\ Captured(page.posted[i])
         /\ page.url \in {"/api/organizations/o1/chat_conversations/c1?tree=True",
                          "https://claude.ai/api/organizations/o1/chat_conversations/xyz",
                          "/api/organizations/o1/chat_conversations/c2"}
         /\ page.resp.contentType = Str("application/json; charset=utf-8")
         /\ page.resp.body.t = "object"
         /\ Truthy(Get(page.resp.body, "chat_messages"))

C22_Witness ==
  /\ page.call = "wrapper"
  /\ page.pc = "done"
  /\ page.url = "https://claude.ai/api/organizations/o1/chat_conversations/xyz"
  /\ Len(page.posted) = 1
  /\ page.posted[1].conversationId = Str("c1")
  /\ page.returned.t = "response"
  /\ ~page.returned.clone

\* C23: once ensureCapture has returned true for the page's conversation, the
\* GET_CAPTURE_DATA the click handler sends next is answered ok:true with
\* that conversation's data, whatever captures of other conversations, and
\* their evictions, come in between.
C23_DataAfterEnsure ==
  popup.pc = "done" =>
    /\ popup.result[1].ok
    /\ popup.result[1].data.conversationId = popup.conversationId

====
